---- MODULE Spec2Model ----
(***************************************************************************)
(* The request execution engine of the oilpriceapi Node.js client          *)
(* (OilPriceAPI.request in client.ts, the error classes of errors.ts):     *)
(* the retry loop, the per-attempt timeout timer, the mapping of HTTP      *)
(* statuses to typed errors, the Retry-After wait and the normalisation of *)
(* the success envelope.                                                   *)
(*                                                                         *)
(* One engine call is a process that suspends at the awaits of the code:   *)
(* the fetch and the two sleeps.  The read of the body is awaited with the *)
(* timer disarmed, so it is taken together with the arrival of the         *)
(* response.                                                               *)
(*                                                                         *)
(* Spec is one engine call on a client of any configuration, and LiveSpec  *)
(* the same under the fairness of fetches and sleeps; ConcSpec is two      *)
(* engine calls interleaved on one client; FacadeSpec adds the methods of  *)
(* resources/diesel.ts and resources/alerts.ts, their validation and the   *)
(* fetch the body-bearing ones issue themselves.  MessageSpec answers one  *)
(* call with error bodies of every kind, HistorySpec calls                 *)
(* getHistoricalPrices() with every combination of options, and DebugSpec  *)
(* makes the same call on two clients that differ in debug.  The           *)
(* unwrapping of the value request() returns (response.alert,              *)
(* response.regional_average) is not modelled.                             *)
(***************************************************************************)
EXTENDS Integers, Sequences, FiniteSets, TLC

(***************************************************************************)
(* Bounds of the model.                                                    *)
(***************************************************************************)
MaxRetries == 2          \* config.retries is drawn from -1..MaxRetries
MaxDelayIndex == 3       \* calculateRetryDelay is tabulated on 0..MaxDelayIndex

(***************************************************************************)
(* Program constants.                                                      *)
(***************************************************************************)
DefaultRetries == 3
DefaultRetryDelay == 1000
DefaultTimeout == 90000
TestRetryDelay == 100
TestTimeout == 5000

\* The engine calls of a behaviour.
CallIds == {1}

(***************************************************************************)
(* Optional JavaScript numbers: undefined, NaN, or a number.               *)
(***************************************************************************)
Undefined == [t |-> "undefined", v |-> 0]
NaN == [t |-> "NaN", v |-> 0]
Num(n) == [t |-> "number", v |-> n]

\* JavaScript truthiness of an optional number: undefined, NaN and 0 are falsy.
Truthy(x) == x.t = "number" /\ x.v # 0

(***************************************************************************)
(* Strings that matter to the code are sequences of characters.            *)
(***************************************************************************)
DigitChars == <<"0", "1", "2", "3", "4", "5", "6", "7", "8", "9">>

IsDigit(ch) == \E i \in 1..10 : DigitChars[i] = ch

DigitValue(ch) == (CHOOSE i \in 1..10 : DigitChars[i] = ch) - 1

\* The decimal rendering of a natural number, as the server writes it.
RECURSIVE Decimal(_)
Decimal(n) ==
    IF n < 10 THEN <<DigitChars[n + 1]>>
    ELSE Decimal(n \div 10) \o <<DigitChars[(n % 10) + 1]>>

\* parseInt(s, 10) on a string without sign or leading blanks: the value of
\* the longest prefix of digits, NaN when that prefix is empty.
RECURSIVE ParseDigits(_, _)
ParseDigits(s, acc) ==
    IF s = <<>> \/ ~IsDigit(Head(s)) THEN acc
    ELSE ParseDigits(Tail(s), 10 * acc + DigitValue(Head(s)))

parseInt(s) ==
    IF s = <<>> \/ ~IsDigit(Head(s)) THEN NaN ELSE Num(ParseDigits(s, 0))

(***************************************************************************)
(* The Retry-After header of a response: absent (headers.get gives null)   *)
(* or a string.                                                            *)
(***************************************************************************)
NoHeader == [present |-> FALSE, value |-> <<>>]
Header(s) == [present |-> TRUE, value |-> s]

\* The delay-seconds a server sends, and a header that is no number.
RetryAfterSeconds == {0, 60}

RetryAfterHeaders ==
    {NoHeader, Header(<<"s", "o", "o", "n">>)}
        \cup {Header(Decimal(n)) : n \in RetryAfterSeconds}

(***************************************************************************)
(* Error messages.  A message is a format, its number and, for the wrapper *)
(* of an untyped error, the format of the message it wraps.                *)
(***************************************************************************)
Msg(fmt) == [fmt |-> fmt, arg |-> 0, inner |-> ""]
MsgN(fmt, n) == [fmt |-> fmt, arg |-> n, inner |-> ""]
MsgWrap(fmt, n, m) == [fmt |-> fmt, arg |-> n, inner |-> m.fmt]

NoCode == "undefined"

(***************************************************************************)
(* errors.ts: the base class and its five subclasses.  typed is            *)
(* `instanceof OilPriceAPIError`.                                          *)
(***************************************************************************)
OilPriceAPIError(message, statusCode, code) ==
    [name |-> "OilPriceAPIError", typed |-> TRUE, message |-> message,
     statusCode |-> statusCode, code |-> code, retryAfter |-> Undefined]

AuthenticationError(message) ==
    [OilPriceAPIError(message, Num(401), "AUTHENTICATION_ERROR")
        EXCEPT !.name = "AuthenticationError"]

\* Variant: the constructor does not keep retryAfter.
RateLimitErrorNoField(message, retryAfter) ==
    [OilPriceAPIError(message, Num(429), "RATE_LIMIT_ERROR")
        EXCEPT !.name = "RateLimitError"]

RateLimitError(message, retryAfter) ==
    [OilPriceAPIError(message, Num(429), "RATE_LIMIT_ERROR")
        EXCEPT !.name = "RateLimitError", !.retryAfter = retryAfter]

NotFoundError(message) ==
    [OilPriceAPIError(message, Num(404), "NOT_FOUND_ERROR")
        EXCEPT !.name = "NotFoundError"]

ServerError(message, statusCode) ==
    [OilPriceAPIError(message, Num(statusCode), "SERVER_ERROR")
        EXCEPT !.name = "ServerError"]

TimeoutError(message, timeout) ==
    [OilPriceAPIError(MsgN(message, timeout), Undefined, "TIMEOUT_ERROR")
        EXCEPT !.name = "TimeoutError"]

\* Errors of the runtime, not instances of OilPriceAPIError.
UntypedError(name, message) ==
    [name |-> name, typed |-> FALSE, message |-> message,
     statusCode |-> Undefined, code |-> NoCode, retryAfter |-> Undefined]

FetchFailed == UntypedError("TypeError", Msg("fetch failed"))
ConnectionReset == UntypedError("Error", Msg("read ECONNRESET"))
BodyTerminated == UntypedError("TypeError", Msg("terminated"))
JsonSyntaxError == UntypedError("SyntaxError", Msg("Unexpected token in JSON"))
NullBodyError ==
    UntypedError("TypeError", Msg("Cannot read properties of null"))

\* lastError = null
NoError == UntypedError("null", Msg(""))

(***************************************************************************)
(* The client: the constructor applied to a configuration.                 *)
(***************************************************************************)
\* The optional settings are left out together or given together.
Options ==
    {[retryDelay |-> Undefined, timeout |-> Undefined],
     [retryDelay |-> Num(TestRetryDelay), timeout |-> Num(TestTimeout)]}

Configs ==
    {[apiKey |-> k, retries |-> Num(n), retryDelay |-> o.retryDelay,
      retryStrategy |-> s, timeout |-> o.timeout, debug |-> "undefined"] :
        k \in {"undefined", "", "test_key"}, n \in (-1)..MaxRetries,
        o \in Options,
        s \in {"undefined", "exponential", "linear", "fixed"}}

\* Variant: only a missing key is refused, an empty one is accepted.
apiKeyMissingOnlyUndefined(config) == config.apiKey = "undefined"

\* Line 56: `!config.apiKey`, true of a missing key and of the empty string.
apiKeyMissing(config) == config.apiKey \in {"undefined", ""}

\* Line 57.
ApiKeyRequired ==
    [name |-> "OilPriceAPIError", typed |-> TRUE,
     message |-> Msg("API key is required"), statusCode |-> Undefined,
     code |-> NoCode, retryAfter |-> Undefined]

\* No object results when the constructor raises.
NoClient ==
    [apiKey |-> "", retries |-> 0, retryDelay |-> 0, retryStrategy |-> "",
     timeout |-> 0]

\* Lines 60-65.
constructor(config) ==
    [apiKey |-> config.apiKey,
     retries |-> IF config.retries # Undefined
                 THEN config.retries.v ELSE DefaultRetries,
     retryDelay |-> IF Truthy(config.retryDelay)
                    THEN config.retryDelay.v ELSE DefaultRetryDelay,
     retryStrategy |-> IF config.retryStrategy # "undefined"
                       THEN config.retryStrategy ELSE "exponential",
     timeout |-> IF Truthy(config.timeout)
                 THEN config.timeout.v ELSE DefaultTimeout]

\* Line 66: config.debug || false.
debugOf(config) == config.debug = "true"

(***************************************************************************)
(* State.  client and ctor are the result of the construction; the rest    *)
(* are the locals of each engine call and what the outside observes of it. *)
(***************************************************************************)
VARIABLES
    client,      \* the fields the constructor set
    ctor,        \* "ok", or "threw" when the constructor raised
    ctorThrown,  \* the error the constructor raised
    method,      \* the facade method of each call and its arguments
    pc,          \* where each engine call is suspended
    attempt,     \* the loop variable of the retry loop
    lastError,   \* the local lastError
    timers,      \* the attempts whose timeout timer is armed
    fetches,     \* the network calls issued: the attempt index of each
    sent,        \* the network calls issued: the verb and headers of each
    sleeps,      \* the calls of sleep(): kind and milliseconds
    outcomes,    \* how each attempt ended
    result,      \* the value returned to the caller
    thrown,      \* the error raised to the caller
    debug,       \* the debug field of the client each call is made on
    logs         \* the lines each call has written with console.log

vars == <<client, ctor, ctorThrown, method, pc, attempt, lastError, timers,
          fetches, sent, sleeps, outcomes, result, thrown, debug, logs>>

(***************************************************************************)
(* Responses.                                                              *)
(***************************************************************************)
Statuses == {200, 400, 401, 404, 429, 500, 501, 502, 503, 504}

\* response.ok
ok(status) == status >= 200 /\ status <= 299

\* The body of an error response: text that is not JSON, the JSON null, or
\* a JSON object; message and error are the fields of that name, '' when
\* the field is missing or empty.
ErrorBody(parse, message, error) ==
    [parse |-> parse, message |-> message, error |-> error]

ErrorBodies ==
    {ErrorBody("text", "", ""), ErrorBody("null", "", "")}
      \cup {ErrorBody("object", m, e) :
               m \in {"", "Invalid API key"}, e \in {"", "unauthorized"}}

\* A body that is not JSON, as a proxy or gateway answers.
PlainBodies == {ErrorBody("text", "", "")}

NoErrorBody == ErrorBody("none", "", "")

\* Variant: the error field is preferred to the message field.
errorMessageErrorFirst(status, body) ==
    IF body.parse = "object" /\ body.error # "" THEN Msg(body.error)
    ELSE IF body.parse = "object" /\ body.message # "" THEN Msg(body.message)
    ELSE MsgN("HTTP %d: %s", status)

\* Lines 180-188: errorJson.message || errorJson.error || errorMessage;
\* JSON.parse of text that is not JSON throws, and so does the read of a
\* field of null; the catch keeps the default.
errorMessage(status, body) ==
    IF body.parse = "object" /\ body.message # "" THEN Msg(body.message)
    ELSE IF body.parse = "object" /\ body.error # "" THEN Msg(body.error)
    ELSE MsgN("HTTP %d: %s", status)

(***************************************************************************)
(* The success envelope {status, data} and its normalisation.              *)
(***************************************************************************)
Absent == [has |-> FALSE, v |-> <<>>]
Present(x) == [has |-> TRUE, v |-> <<x>>]

Price1 == [code |-> "WTI_USD", price |-> 72]
Price2 == [code |-> "BRENT_CRUDE_USD", price |-> 75]

\* responseData.data: undefined, or an object with optional prices and price.
NoData == [defined |-> FALSE, prices |-> Absent, price |-> Absent]

Datas ==
    {NoData} \cup
    [defined : {TRUE},
     prices : {Absent, Present(<<>>), Present(<<Price1, Price2>>)},
     price : {Absent, Present(72)}]

\* What response.json() gives: a syntax error, null, or an envelope.
SuccessBodies ==
    [parse : {"syntax", "null"}, status : {"error"}, data : {NoData}]
        \cup [parse : {"object"}, status : {"success"}, data : Datas]
        \cup [parse : {"object"}, status : {"error"},
              data : {d \in Datas : d.defined /\ d.prices.has # d.price.has}]

NoBody == [parse |-> "none", status |-> "", data |-> NoData]

NoResult == [shape |-> "none", prices |-> <<>>, data |-> NoData]

\* Variant: the price branch is tested before the prices branch.
normalizePriceFirst(responseData) ==
    IF responseData.status = "success" /\ responseData.data.defined
    THEN IF responseData.data.price.has
         THEN [shape |-> "wrapped", prices |-> <<>>,
               data |-> responseData.data]
         ELSE IF responseData.data.prices.has
         THEN [shape |-> "prices",
               prices |-> responseData.data.prices.v[1],
               data |-> NoData]
         ELSE [shape |-> "data", prices |-> <<>>,
               data |-> responseData.data]
    ELSE [shape |-> "data", prices |-> <<>>, data |-> responseData.data]

\* Lines 238-252.
normalize(responseData) ==
    IF responseData.status = "success" /\ responseData.data.defined
    THEN IF responseData.data.prices.has
         THEN [shape |-> "prices",
               prices |-> responseData.data.prices.v[1],
               data |-> NoData]
         ELSE IF responseData.data.price.has
         THEN [shape |-> "wrapped", prices |-> <<>>,
               data |-> responseData.data]
         ELSE [shape |-> "data", prices |-> <<>>,
               data |-> responseData.data]
    ELSE [shape |-> "data", prices |-> <<>>, data |-> responseData.data]

(***************************************************************************)
(* The retry policy.                                                       *)
(***************************************************************************)
\* Math.pow(2, n) for a natural n
RECURSIVE Pow2(_)
Pow2(n) == IF n = 0 THEN 1 ELSE 2 * Pow2(n - 1)

\* Variant: the linear strategy multiplies by the attempt index itself.
calculateRetryDelayLinearFromZero(a) ==
    CASE client.retryStrategy = "exponential" -> client.retryDelay * Pow2(a)
      [] client.retryStrategy = "linear" -> client.retryDelay * a
      [] OTHER -> client.retryDelay

\* Lines 82-92.
calculateRetryDelay(a) ==
    CASE client.retryStrategy = "exponential" -> client.retryDelay * Pow2(a)
      [] client.retryStrategy = "linear" -> client.retryDelay * (a + 1)
      [] OTHER -> client.retryDelay

\* Variant: every typed error is retried, the client errors too.
isRetryableAlways(error) == TRUE

\* Variant: the timeout branch is missing.
isRetryableNoTimeout(error) ==
    \/ error.name = "TypeError" /\ error.message.fmt = "fetch failed"
    \/ error.name = "ServerError"
    \/ error.name = "RateLimitError"

\* Variant: the 5xx branch is missing.
isRetryableNoServer(error) ==
    \/ error.name = "TypeError" /\ error.message.fmt = "fetch failed"
    \/ error.name = "TimeoutError"
    \/ error.name = "RateLimitError"

isRetryable(error) ==
    \/ error.name = "TypeError" /\ error.message.fmt = "fetch failed"
    \/ error.name = "TimeoutError"
    \/ error.name = "ServerError"
    \/ error.name = "RateLimitError"

(***************************************************************************)
(* How an attempt ended, as the outside sees it: the status and the        *)
(* Retry-After header of the response, or the failure.                     *)
(***************************************************************************)
Responded(status, header, body) ==
    [kind |-> "response", status |-> status, retryAfter |-> header,
     body |-> body, errorBody |-> NoErrorBody]
RespondedError(status, header, errorBody) ==
    [kind |-> "response", status |-> status, retryAfter |-> header,
     body |-> NoBody, errorBody |-> errorBody]
Failed(kind) ==
    [kind |-> kind, status |-> 0, retryAfter |-> NoHeader, body |-> NoBody,
     errorBody |-> NoErrorBody]

Backoff(ms) == [kind |-> "backoff", ms |-> ms]
ServerWait(ms) == [kind |-> "retry-after", ms |-> ms]

(***************************************************************************)
(* The request handed to fetch: the verb and the headers.  A header that   *)
(* is not set is the empty string.                                         *)
(***************************************************************************)
Bearer(apiKey) == <<"Bearer", apiKey>>

UserAgent(sdk, version) == [sdk |-> sdk, version |-> version]
NoUserAgent == UserAgent("", "")

(***************************************************************************)
(* Arguments of the facade methods.  A string argument is undefined, a     *)
(* string, or a value of another type.                                     *)
(***************************************************************************)
NoStr == [t |-> "undefined", s |-> ""]
Null == [t |-> "null", s |-> ""]
Str(x) == [t |-> "string", s |-> x]
NotStr == [t |-> "number", s |-> ""]

\* `!x` for such an argument: undefined, null and '' are falsy.
Falsy(x) == x.t \in {"undefined", "null"} \/ (x.t = "string" /\ x.s = "")

IsString(x) == x.t = "string"

\* x.length === n; the length of a value that is no string is undefined.
HasLength(x, n) == IsString(x) /\ Len(x.s) = n

\* x.startsWith(prefix) for a string x
startsWith(x, prefix) ==
    /\ Len(x.s) >= Len(prefix)
    /\ SubSeq(x.s, 1, Len(prefix)) = prefix

\* A value that is not a number where a number is expected.
NotNum == [t |-> "string", v |-> 0]

\* typeof x === 'number': NaN is a number too.
IsNumber(x) == x.t \in {"number", "NaN"}

\* x < k, x <= k and x > k; every comparison with NaN is false.
Below(x, k) == x.t = "number" /\ x.v < k
AtMost(x, k) == x.t = "number" /\ x.v <= k
Above(x, k) == x.t = "number" /\ x.v > k

NoParams ==
    [name |-> NoStr, commodity_code |-> NoStr, condition_operator |-> NoStr,
     condition_value |-> Undefined, webhook_url |-> NoStr,
     cooldown_minutes |-> Undefined]

\* types.ts, lines 168-204: the options of getHistoricalPrices();
\* getLatestPrices() takes commodity alone.
NoOptions ==
    [period |-> NoStr, commodity |-> NoStr, startDate |-> NoStr,
     endDate |-> NoStr, interval |-> NoStr, perPage |-> Undefined,
     page |-> Undefined]

NoArgs ==
    [str |-> NoStr, lat |-> Undefined, lng |-> Undefined,
     radius |-> Undefined, params |-> NoParams, options |-> NoOptions]

\* A call of a method that takes its arguments as they are and hands them
\* to request(): getLatestPrices().
EngineCall == [name |-> "getLatestPrices", args |-> NoArgs]

(***************************************************************************)
(* The validation of the facade methods of diesel.ts and alerts.ts: the    *)
(* message of the plain Error the method throws, "" when it throws none.   *)
(***************************************************************************)
\* diesel.ts, lines 155-157.
getPriceError(args) ==
    IF Falsy(args.str) \/ ~HasLength(args.str, 2)
    THEN "State must be a 2-letter US state code"
    ELSE ""

\* diesel.ts, line 207: `radius = 8047` when the option is undefined.
radiusOf(args) == IF args.radius = Undefined THEN Num(8047) ELSE args.radius

\* Variant: the radius is not checked.
getStationsErrorNoRadius(args) ==
    IF Below(args.lat, -90) \/ Above(args.lat, 90)
    THEN "Latitude must be between -90 and 90"
    ELSE IF Below(args.lng, -180) \/ Above(args.lng, 180)
    THEN "Longitude must be between -180 and 180"
    ELSE ""

\* diesel.ts, lines 210-218.
getStationsError(args) ==
    IF Below(args.lat, -90) \/ Above(args.lat, 90)
    THEN "Latitude must be between -90 and 90"
    ELSE IF Below(args.lng, -180) \/ Above(args.lng, 180)
    THEN "Longitude must be between -180 and 180"
    ELSE IF Below(radiusOf(args), 0) \/ Above(radiusOf(args), 50000)
    THEN "Radius must be between 0 and 50000 meters"
    ELSE ""

\* alerts.ts, lines 209-211, 371-373 and 456-458.
alertIdError(args) ==
    IF Falsy(args.str) \/ ~IsString(args.str)
    THEN "Alert ID must be a non-empty string"
    ELSE ""

validOperators ==
    {"greater_than", "less_than", "equals", "greater_than_or_equal",
     "less_than_or_equal"}

\* alerts.ts, lines 258-307.
createError(p) ==
    IF Falsy(p.name) \/ ~IsString(p.name)
    THEN "Alert name is required and must be a string"
    ELSE IF Len(p.name.s) < 1 \/ Len(p.name.s) > 100
    THEN "Alert name must be 1-100 characters"
    ELSE IF Falsy(p.commodity_code) \/ ~IsString(p.commodity_code)
    THEN "Commodity code is required and must be a string"
    ELSE IF Falsy(p.condition_operator)
    THEN "Condition operator is required"
    ELSE IF ~(/\ IsString(p.condition_operator)
              /\ p.condition_operator.s \in validOperators)
    THEN "Invalid operator"
    ELSE IF ~IsNumber(p.condition_value)
    THEN "Condition value must be a number"
    ELSE IF AtMost(p.condition_value, 0) \/ Above(p.condition_value, 1000000)
    THEN "Condition value must be greater than 0"
    ELSE IF p.webhook_url # NoStr /\ ~IsString(p.webhook_url)
    THEN "Webhook URL must be a string"
    ELSE IF /\ p.webhook_url # NoStr
            /\ ~Falsy(p.webhook_url)
            /\ ~startsWith(p.webhook_url, "https://")
    THEN "Webhook URL must use HTTPS protocol"
    ELSE IF p.cooldown_minutes # Undefined /\ ~IsNumber(p.cooldown_minutes)
    THEN "Cooldown minutes must be a number"
    ELSE IF /\ p.cooldown_minutes # Undefined
            /\ (Below(p.cooldown_minutes, 0) \/ Above(p.cooldown_minutes, 1440))
    THEN "Cooldown minutes must be between 0 and 1440"
    ELSE ""

\* alerts.ts, lines 371-414: every field is optional.
updateError(args) ==
    LET p == args.params IN
    IF alertIdError(args) # ""
    THEN alertIdError(args)
    ELSE IF /\ p.name # NoStr
            /\ (\/ ~IsString(p.name)
                \/ Len(p.name.s) < 1
                \/ Len(p.name.s) > 100)
    THEN "Alert name must be 1-100 characters"
    ELSE IF /\ p.condition_operator # NoStr
            /\ ~(/\ IsString(p.condition_operator)
                  /\ p.condition_operator.s \in validOperators)
    THEN "Invalid operator"
    ELSE IF p.condition_value # Undefined /\ ~IsNumber(p.condition_value)
    THEN "Condition value must be a number"
    ELSE IF /\ p.condition_value # Undefined
            /\ (\/ AtMost(p.condition_value, 0)
                \/ Above(p.condition_value, 1000000))
    THEN "Condition value must be greater than 0"
    ELSE IF /\ p.webhook_url \notin {NoStr, Null}
            /\ (\/ ~IsString(p.webhook_url)
                \/ ~startsWith(p.webhook_url, "https://"))
    THEN "Webhook URL must be a valid HTTPS URL"
    ELSE IF /\ p.cooldown_minutes # Undefined
            /\ (\/ ~IsNumber(p.cooldown_minutes)
                \/ Below(p.cooldown_minutes, 0)
                \/ Above(p.cooldown_minutes, 1440))
    THEN "Cooldown minutes must be between 0 and 1440"
    ELSE ""

\* alerts.ts, lines 508-513.
testWebhookError(args) ==
    IF Falsy(args.str) \/ ~IsString(args.str)
    THEN "Webhook URL is required and must be a string"
    ELSE IF ~startsWith(args.str, "https://")
    THEN "Webhook URL must use HTTPS protocol"
    ELSE ""

\* What the method throws before it calls request() or fetch().
validate(m) ==
    CASE m.name = "diesel.getPrice" -> getPriceError(m.args)
      [] m.name = "diesel.getStations" -> getStationsError(m.args)
      [] m.name \in {"alerts.get", "alerts.delete"} -> alertIdError(m.args)
      [] m.name = "alerts.create" -> createError(m.args.params)
      [] m.name = "alerts.update" -> updateError(m.args)
      [] m.name = "alerts.testWebhook" -> testWebhookError(m.args)
      [] OTHER -> ""

\* The methods that call request(); the others call fetch() themselves.
EngineMethods ==
    {"getLatestPrices", "getHistoricalPrices", "diesel.getPrice",
     "alerts.list", "alerts.get"}

DirectMethods ==
    {"diesel.getStations", "alerts.create", "alerts.update", "alerts.delete",
     "alerts.testWebhook"}

(***************************************************************************)
(* The URL of a network call, relative to baseUrl: the path and the query  *)
(* parameters in the order they were appended.                             *)
(***************************************************************************)
Url(path, query) == [path |-> path, query |-> query]

\* `if (options?.x) params.key = options.x`: the parameter is set when the
\* option is truthy; lines 138-144 append every parameter that was set.
Param(key, value) == IF Falsy(value) THEN <<>> ELSE <<<<key, value.s>>>>

\* state.toUpperCase(), diesel.ts line 161.
Lower == <<"a", "b", "c", "d", "e", "f", "g", "h", "i", "j", "k", "l", "m",
           "n", "o", "p", "q", "r", "s", "t", "u", "v", "w", "x", "y", "z">>
Upper == <<"A", "B", "C", "D", "E", "F", "G", "H", "I", "J", "K", "L", "M",
           "N", "O", "P", "Q", "R", "S", "T", "U", "V", "W", "X", "Y", "Z">>

upperChar(ch) ==
    IF \E i \in 1..26 : Lower[i] = ch
    THEN Upper[CHOOSE i \in 1..26 : Lower[i] = ch]
    ELSE ch

RECURSIVE toUpperCase(_)
toUpperCase(s) ==
    IF s = "" THEN ""
    ELSE upperChar(SubSeq(s, 1, 1)) \o toUpperCase(SubSeq(s, 2, Len(s)))

\* Lines 318-326.
getLatestPrices(options) ==
    Url("/v1/prices/latest", Param("by_code", options.commodity))

\* Lines 350-372.
getHistoricalPrices(options) ==
    Url("/v1/prices",
        Param("period", options.period)
          \o Param("by_code", options.commodity)
          \o Param("start_date", options.startDate)
          \o Param("end_date", options.endDate))

\* The endpoint and the parameters a method hands to request(): lines 325
\* and 371, diesel.ts lines 159-162, alerts.ts lines 183 and 213.
Endpoint(m) ==
    CASE m.name = "getLatestPrices" -> getLatestPrices(m.args.options)
      [] m.name = "getHistoricalPrices" ->
            getHistoricalPrices(m.args.options)
      [] m.name = "diesel.getPrice" ->
            Url("/v1/diesel-prices",
                <<<<"state", toUpperCase(m.args.str.s)>>>>)
      [] m.name = "alerts.list" -> Url("/v1/alerts", <<>>)
      [] m.name = "alerts.get" -> Url("/v1/alerts/" \o m.args.str.s, <<>>)

\* Lines 163-171: the fetch of an attempt of call c.
EngineRequest(c) ==
    [verb |-> "GET", url |-> Endpoint(method[c]),
     authorization |-> Bearer(client.apiKey),
     contentType |-> "application/json",
     userAgent |-> UserAgent("oilpriceapi-node", "0.3.1")]

\* The URL of the fetch a method issues itself: diesel.ts line 222 and
\* alerts.ts lines 309, 418, 460 and 515.
DirectUrl(m) ==
    CASE m.name = "diesel.getStations" ->
            Url("/v1/diesel-prices/stations", <<>>)
      [] m.name = "alerts.create" -> Url("/v1/alerts", <<>>)
      [] m.name \in {"alerts.update", "alerts.delete"} ->
            Url("/v1/alerts/" \o m.args.str.s, <<>>)
      [] m.name = "alerts.testWebhook" ->
            Url("/v1/alerts/test_webhook", <<>>)

\* The fetch of diesel.ts lines 221-235 and of alerts.ts lines 309-327,
\* 416-426, 460-467 and 515-525.
DirectRequest(m) ==
    [verb |-> CASE m.name = "alerts.update" -> "PATCH"
                [] m.name = "alerts.delete" -> "DELETE"
                [] OTHER -> "POST",
     url |-> DirectUrl(m),
     authorization |-> Bearer(client.apiKey),
     contentType |-> "application/json",
     userAgent |-> IF m.name = "diesel.getStations"
                   THEN UserAgent("oilpriceapi-node", "0.4.0")
                   ELSE NoUserAgent]

(***************************************************************************)
(* The calls of the facade that are drawn: for every method the arguments  *)
(* of its tests, one deviation from well-formed arguments at a time.       *)
(***************************************************************************)
Call(name, args) == [name |-> name, args |-> args]

StrArgs(values) == {[NoArgs EXCEPT !.str = v] : v \in values}

BadIds == {NoStr, Null, Str(""), NotStr}
AlertId == Str("550e8400")

Geo(lat, lng, radius) ==
    [NoArgs EXCEPT !.lat = lat, !.lng = lng, !.radius = radius]

StationArgs ==
    {Geo(Num(37), Num(-122), Num(5000)), Geo(Num(37), Num(-122), Undefined),
     Geo(Num(-91), Num(-122), Num(5000)), Geo(Num(91), Num(-122), Num(5000)),
     Geo(Num(37), Num(-181), Num(5000)), Geo(Num(37), Num(181), Num(5000)),
     Geo(Num(37), Num(-122), Num(-100)), Geo(Num(37), Num(-122), Num(50001)),
     Geo(NaN, Num(-122), Num(5000))}

A50 == "aaaaaaaaaaaaaaaaaaaaaaaaaaaaaaaaaaaaaaaaaaaaaaaaaa"
LongName == A50 \o A50 \o "a"

baseParams ==
    [name |-> Str("Brent Alert"), commodity_code |-> Str("BRENT_CRUDE_USD"),
     condition_operator |-> Str("greater_than"), condition_value |-> Num(85),
     webhook_url |-> NoStr, cooldown_minutes |-> Undefined]

\* The deviations of alerts.test.ts, for create and update alike.
ParamsFrom(base) ==
    {base}
      \cup {[base EXCEPT !.name = v] : v \in {Str(""), Str(LongName), Null}}
      \cup {[base EXCEPT !.commodity_code = v] : v \in {Str(""), Null}}
      \cup {[base EXCEPT !.condition_operator = v] :
               v \in {Str("invalid"), Str("")}}
      \cup {[base EXCEPT !.condition_value = v] :
               v \in {Num(0), Num(-5), Num(1000001), NotNum}}
      \cup {[base EXCEPT !.webhook_url = v] :
               v \in {Str("http://insecure.com"), Str("not-a-url"), NotStr,
                      Str(""), Str("https://myapp.com/webhook")}}
      \cup {[base EXCEPT !.cooldown_minutes = v] :
               v \in {Num(-1), Num(1441), NotNum, Num(120)}}

CreateArgs == {[NoArgs EXCEPT !.params = p] : p \in ParamsFrom(baseParams)}

UpdateArgs ==
    {[NoArgs EXCEPT !.str = AlertId, !.params = p] :
        p \in ParamsFrom(NoParams)}
      \cup {[NoArgs EXCEPT !.str = v] : v \in BadIds}

WebhookArgs ==
    StrArgs({NoStr, Null, Str(""), NotStr, Str("http://insecure.com"),
             Str("not-a-url"), Str("https://myapp.com/webhook")})

FacadeCalls ==
    {EngineCall, Call("alerts.list", NoArgs)}
      \cup {Call("diesel.getPrice", a) :
               a \in StrArgs({NoStr, Str(""), Str("C"), Str("CA"),
                              Str("CAL"), NotStr})}
      \cup {Call("diesel.getStations", a) : a \in StationArgs}
      \cup {Call(n, a) : n \in {"alerts.get", "alerts.delete"},
                         a \in StrArgs(BadIds \cup {AlertId})}
      \cup {Call("alerts.create", a) : a \in CreateArgs}
      \cup {Call("alerts.update", a) : a \in UpdateArgs}
      \cup {Call("alerts.testWebhook", a) : a \in WebhookArgs}

(***************************************************************************)
(* Construction.                                                           *)
(***************************************************************************)
Init ==
    /\ \E config \in Configs :
          \* line 56: if (!config.apiKey) throw
          IF apiKeyMissing(config)
          THEN ctor = "threw" /\ client = NoClient
               /\ ctorThrown = ApiKeyRequired
               /\ debug = [c \in CallIds |-> FALSE]
          ELSE ctor = "ok" /\ client = constructor(config)
               /\ ctorThrown = NoError
               /\ debug = [c \in CallIds |-> debugOf(config)]
    /\ method = [c \in CallIds |-> EngineCall]
    /\ sent = [c \in CallIds |-> <<>>]
    /\ pc = [c \in CallIds |-> "idle"]
    /\ attempt = [c \in CallIds |-> 0]
    /\ lastError = [c \in CallIds |-> NoError]
    /\ timers = [c \in CallIds |-> {}]
    /\ fetches = [c \in CallIds |-> <<>>]
    /\ sleeps = [c \in CallIds |-> <<>>]
    /\ outcomes = [c \in CallIds |-> <<>>]
    /\ result = [c \in CallIds |-> NoResult]
    /\ thrown = [c \in CallIds |-> NoError]
    /\ logs = [c \in CallIds |-> <<>>]

(***************************************************************************)
(* The head of the retry loop, lines 151-171 and 300: the loop test, then  *)
(* the timer is armed and the fetch is issued; when the test fails the     *)
(* statement after the loop raises.                                        *)
(***************************************************************************)
BeginAttempt(c, a, le) ==
    IF a <= client.retries
    THEN /\ pc' = [pc EXCEPT ![c] = "fetch"]
         /\ timers' = [timers EXCEPT ![c] = @ \cup {a}]
         /\ fetches' = [fetches EXCEPT ![c] = Append(@, a)]
         /\ sent' = [sent EXCEPT ![c] = Append(@, EngineRequest(c))]
         /\ UNCHANGED thrown
    ELSE /\ pc' = [pc EXCEPT ![c] = "raised"]
         /\ thrown' = [thrown EXCEPT ![c] =
                          IF le # NoError THEN le
                          ELSE OilPriceAPIError(Msg("Unknown error occurred"),
                                                Undefined, NoCode)]
         /\ UNCHANGED <<timers, fetches, sent>>

\* Variant: the delay is computed for the number of the retry, from 1.
BackoffDelayOneBased(c) == calculateRetryDelay(attempt[c] + 1)

\* Line 293: the delay before the retry that follows attempt[c].
BackoffDelay(c) == calculateRetryDelay(attempt[c])

\* Variant: an error that is not of the SDK is raised at once, too, when
\* isRetryable() refuses it.
CatchChecksRetryable(c, error, how) ==
    /\ lastError' = [lastError EXCEPT ![c] = error]
    /\ outcomes' = [outcomes EXCEPT ![c] = Append(@, how)]
    /\ IF ~isRetryable(error)
       THEN /\ pc' = [pc EXCEPT ![c] = "raised"]
            /\ thrown' = [thrown EXCEPT ![c] = error]
            /\ UNCHANGED sleeps
       ELSE IF attempt[c] = client.retries
       THEN /\ pc' = [pc EXCEPT ![c] = "raised"]
            /\ thrown' = [thrown EXCEPT ![c] =
                   IF error.typed THEN error
                   ELSE OilPriceAPIError(
                            MsgWrap("Request failed after %d attempts: %s",
                                    client.retries + 1, error.message),
                            Undefined, "NETWORK_ERROR")]
            /\ UNCHANGED sleeps
       ELSE /\ pc' = [pc EXCEPT ![c] = "sleep"]
            /\ sleeps' = [sleeps EXCEPT ![c] =
                   Append(@, Backoff(BackoffDelay(c)))]
            /\ UNCHANGED thrown

\* Variant: lastError keeps the error of the first attempt that failed.
CatchKeepsFirst(c, error, how) ==
    LET first == IF lastError[c] = NoError THEN error ELSE lastError[c] IN
    /\ lastError' = [lastError EXCEPT ![c] = first]
    /\ outcomes' = [outcomes EXCEPT ![c] = Append(@, how)]
    /\ IF error.typed /\ ~isRetryable(error)
       THEN /\ pc' = [pc EXCEPT ![c] = "raised"]
            /\ thrown' = [thrown EXCEPT ![c] = first]
            /\ UNCHANGED sleeps
       ELSE IF attempt[c] = client.retries
       THEN /\ pc' = [pc EXCEPT ![c] = "raised"]
            /\ thrown' = [thrown EXCEPT ![c] =
                   IF first.typed THEN first
                   ELSE OilPriceAPIError(
                            MsgWrap("Request failed after %d attempts: %s",
                                    client.retries + 1, first.message),
                            Undefined, "NETWORK_ERROR")]
            /\ UNCHANGED sleeps
       ELSE /\ pc' = [pc EXCEPT ![c] = "sleep"]
            /\ sleeps' = [sleeps EXCEPT ![c] =
                   Append(@, Backoff(BackoffDelay(c)))]
            /\ UNCHANGED thrown

\* Variant: after the last attempt the untyped error is rethrown as it is.
CatchRethrowsRaw(c, error, how) ==
    /\ lastError' = [lastError EXCEPT ![c] = error]
    /\ outcomes' = [outcomes EXCEPT ![c] = Append(@, how)]
    /\ IF error.typed /\ ~isRetryable(error)
       THEN /\ pc' = [pc EXCEPT ![c] = "raised"]
            /\ thrown' = [thrown EXCEPT ![c] = error]
            /\ UNCHANGED sleeps
       ELSE IF attempt[c] = client.retries
       THEN /\ pc' = [pc EXCEPT ![c] = "raised"]
            /\ thrown' = [thrown EXCEPT ![c] = error]
            /\ UNCHANGED sleeps
       ELSE /\ pc' = [pc EXCEPT ![c] = "sleep"]
            /\ sleeps' = [sleeps EXCEPT ![c] =
                   Append(@, Backoff(calculateRetryDelay(attempt[c])))]
            /\ UNCHANGED thrown

(***************************************************************************)
(* The outer catch, lines 262-296, for an error raised in an attempt that  *)
(* ended as `how`.                                                         *)
(***************************************************************************)
Catch(c, error, how) ==
    /\ lastError' = [lastError EXCEPT ![c] = error]
    /\ outcomes' = [outcomes EXCEPT ![c] = Append(@, how)]
    /\ IF error.typed /\ ~isRetryable(error)
       THEN /\ pc' = [pc EXCEPT ![c] = "raised"]
            /\ thrown' = [thrown EXCEPT ![c] = error]
            /\ UNCHANGED sleeps
       ELSE IF attempt[c] = client.retries
       THEN /\ pc' = [pc EXCEPT ![c] = "raised"]
            /\ thrown' = [thrown EXCEPT ![c] =
                   IF error.typed THEN error
                   ELSE OilPriceAPIError(
                            MsgWrap("Request failed after %d attempts: %s",
                                    client.retries + 1, error.message),
                            Undefined, "NETWORK_ERROR")]
            /\ UNCHANGED sleeps
       ELSE /\ pc' = [pc EXCEPT ![c] = "sleep"]
            /\ sleeps' = [sleeps EXCEPT ![c] =
                   Append(@, Backoff(BackoffDelay(c)))]
            /\ UNCHANGED thrown

(***************************************************************************)
(* Debug logging, lines 72-77: log() prints when this.debug is set.  A     *)
(* line is the pieces of its message and of its data, in order; the        *)
(* timestamp, the base URL and the status text are left out.               *)
(***************************************************************************)
log(c, lines) == [logs EXCEPT ![c] = IF debug[c] THEN @ \o lines ELSE @]

\* The text of an error message.
Text(m) == <<m.fmt, ToString(m.arg), m.inner>>

RECURSIVE QueryText(_)
QueryText(query) ==
    IF query = <<>> THEN <<>>
    ELSE <<query[1][1], "=", query[1][2]>> \o QueryText(Tail(query))

\* Variant: the line shows the headers of the request too.
RequestLineWithHeaders(url) ==
    <<"Request: ", url.path>> \o QueryText(url.query)
        \o <<"Authorization: Bearer " \o client.apiKey>>

\* Line 146.
RequestLine(url) == <<"Request: ", url.path>> \o QueryText(url.query)

\* Lines 154-156, for the attempt a that the loop enters.
RetryLines(a) ==
    IF a > 0 /\ a <= client.retries
    THEN <<<<"Retry attempt ", ToString(a), "/", ToString(client.retries)>>>>
    ELSE <<>>

\* Line 175.
ResponseLine(status) == <<"Response: ", ToString(status)>>

\* Line 190.
ErrorResponseLine(message) == <<"Error response: ">> \o Text(message)

\* Line 207.
RateLimitedLine(error) ==
    <<"Rate limited. Waiting ", ToString(error.retryAfter.v), "s">>

\* Lines 230-233: the status of the envelope and whether it has data.
DataLine(body) ==
    <<"Response data received", body.status, ToString(body.data.defined)>>

\* Lines 241, 245 and 251.
ReturnLine(value) ==
    CASE value.shape = "prices" ->
            <<"Returning ", ToString(Len(value.prices)), " prices">>
      [] value.shape = "wrapped" ->
            <<"Returning single price (wrapped in array)">>
      [] OTHER -> <<"Returning data as-is">>

\* Lines 264-267 and 294: what the outer catch prints for the error.
CatchLines(c, error) ==
    <<<<"Request failed: ">> \o Text(error.message)
          \o <<ToString(attempt[c]), ToString(isRetryable(error))>>>>
      \o (IF (error.typed /\ ~isRetryable(error))
               \/ attempt[c] = client.retries
          THEN <<>>
          ELSE <<<<"Waiting ", ToString(BackoffDelay(c)),
                   "ms before retry...">>>>)

(***************************************************************************)
(* A facade method whose arguments passed its validation calls request():  *)
(* lines 132-171.                                                          *)
(***************************************************************************)
\* Variant: the payload of a call that returned is kept and handed to a
\* later call of the same method with the same arguments.
RequestMemoized(c) ==
    /\ ctor = "ok"
    /\ pc[c] = "idle"
    /\ method[c].name \in EngineMethods
    /\ validate(method[c]) = ""
    /\ attempt' = [attempt EXCEPT ![c] = 0]
    /\ IF \E d \in DOMAIN pc : pc[d] = "returned" /\ method[d] = method[c]
       THEN /\ pc' = [pc EXCEPT ![c] = "returned"]
            /\ result' = [result EXCEPT ![c] =
                   result[CHOOSE d \in DOMAIN pc :
                             pc[d] = "returned" /\ method[d] = method[c]]]
            /\ UNCHANGED <<timers, fetches, sent, thrown>>
       ELSE /\ BeginAttempt(c, 0, NoError)
            /\ UNCHANGED result
    /\ logs' = log(c, <<RequestLine(Endpoint(method[c]))>>)
    /\ UNCHANGED <<client, ctor, ctorThrown, method, debug,
                   lastError, sleeps, outcomes>>

Request(c) ==
    /\ ctor = "ok"
    /\ pc[c] = "idle"
    /\ method[c].name \in EngineMethods
    /\ validate(method[c]) = ""
    /\ attempt' = [attempt EXCEPT ![c] = 0]
    /\ BeginAttempt(c, 0, NoError)
    /\ logs' = log(c, <<RequestLine(Endpoint(method[c]))>>)
    /\ UNCHANGED <<client, ctor, ctorThrown, method, debug,
                   lastError, sleeps, outcomes, result>>

(***************************************************************************)
(* The fetch rejects (connection refused, DNS failure): the inner catch    *)
(* rethrows, lines 254-260; the timer stays armed.                         *)
(***************************************************************************)
\* Variant: the next attempt is issued at once, without the sleep.
FetchRejectNoSleep(c) ==
    /\ pc[c] = "fetch"
    /\ IF attempt[c] = client.retries
       THEN /\ Catch(c, FetchFailed, Failed("network"))
            /\ UNCHANGED <<attempt, timers, fetches, sent>>
       ELSE /\ lastError' = [lastError EXCEPT ![c] = FetchFailed]
            /\ outcomes' = [outcomes EXCEPT ![c] = Append(@, Failed("network"))]
            /\ attempt' = [attempt EXCEPT ![c] = @ + 1]
            /\ BeginAttempt(c, attempt[c] + 1, FetchFailed)
            /\ UNCHANGED sleeps
    /\ logs' = log(c, CatchLines(c, FetchFailed))
    /\ UNCHANGED <<client, ctor, ctorThrown, method, debug,
                   result>>

FetchReject(c) ==
    /\ pc[c] = "fetch"
    /\ \E error \in {FetchFailed, ConnectionReset} :
          /\ Catch(c, error, Failed("network"))
          /\ logs' = log(c, CatchLines(c, error))
    /\ UNCHANGED <<client, ctor, ctorThrown, method, debug,
                   attempt, timers, fetches, sent, result>>

(***************************************************************************)
(* A timeout timer fires: controller.abort(), line 160.  The fetch of its  *)
(* attempt, when still pending, rejects with AbortError and the inner      *)
(* catch raises TimeoutError, lines 256-258.                               *)
(***************************************************************************)
\* Variant: one AbortController is shared by the calls of the client, so
\* the timer aborts whichever fetch is in flight.
TimeoutFireShared(c) ==
    \E a \in timers[c] :
    \E d \in DOMAIN pc :
       /\ timers' = [timers EXCEPT ![c] = @ \ {a}]
       /\ IF pc[d] = "fetch"
          THEN /\ Catch(d, TimeoutError("Request timeout (%dms)",
                                        client.timeout),
                        Failed("timeout"))
               /\ logs' = log(d, CatchLines(d,
                      TimeoutError("Request timeout (%dms)", client.timeout)))
          ELSE UNCHANGED <<pc, lastError, outcomes, sleeps, thrown, logs>>
       /\ UNCHANGED <<client, ctor, ctorThrown, method, debug,
                      attempt, fetches, sent,
                      result>>

TimeoutFire(c) ==
    \E a \in timers[c] :
       /\ timers' = [timers EXCEPT ![c] = @ \ {a}]
       /\ IF pc[c] = "fetch" /\ attempt[c] = a
          THEN /\ Catch(c, TimeoutError("Request timeout (%dms)",
                                        client.timeout),
                        Failed("timeout"))
               /\ logs' = log(c, CatchLines(c,
                      TimeoutError("Request timeout (%dms)", client.timeout)))
          ELSE UNCHANGED <<pc, lastError, outcomes, sleeps, thrown, logs>>
       /\ UNCHANGED <<client, ctor, ctorThrown, method, debug,
                      attempt, fetches, sent, result>>

(***************************************************************************)
(* The error constructed for a non-2xx status: the switch of lines         *)
(* 193-224.                                                                *)
(***************************************************************************)
\* Variant: `case 404` is missing from the switch.
HttpErrorNo404(status, message, header) ==
    CASE status = 401 -> AuthenticationError(message)
      [] status = 429 ->
            RateLimitError(message,
                           IF header.present /\ header.value # <<>>
                           THEN parseInt(header.value) ELSE Undefined)
      [] status \in {500, 502, 503, 504} -> ServerError(message, status)
      [] OTHER -> OilPriceAPIError(message, Num(status), "HTTP_ERROR")

\* Variant: the Retry-After header is not passed to RateLimitError.
HttpErrorNoRetryAfter(status, message, header) ==
    CASE status = 401 -> AuthenticationError(message)
      [] status = 404 -> NotFoundError(message)
      [] status = 429 -> RateLimitError(message, Undefined)
      [] status \in {500, 502, 503, 504} -> ServerError(message, status)
      [] OTHER -> OilPriceAPIError(message, Num(status), "HTTP_ERROR")

\* Variant: `case 504` is missing from the switch.
HttpErrorNo504(status, message, header) ==
    CASE status = 401 -> AuthenticationError(message)
      [] status = 404 -> NotFoundError(message)
      [] status = 429 ->
            RateLimitError(message,
                           IF header.present /\ header.value # <<>>
                           THEN parseInt(header.value) ELSE Undefined)
      [] status \in {500, 502, 503} -> ServerError(message, status)
      [] OTHER -> OilPriceAPIError(message, Num(status), "HTTP_ERROR")

HttpError(status, message, header) ==
    CASE status = 401 -> AuthenticationError(message)
      [] status = 404 -> NotFoundError(message)
      [] status = 429 ->
            RateLimitError(message,
                           IF header.present /\ header.value # <<>>
                           THEN parseInt(header.value) ELSE Undefined)
      [] status \in {500, 502, 503, 504} -> ServerError(message, status)
      [] OTHER -> OilPriceAPIError(message, Num(status), "HTTP_ERROR")

\* Variant: any Retry-After that is a number is waited for, 0 included.
ShouldWaitOnZero(c, rateLimitError) ==
    attempt[c] < client.retries /\ rateLimitError.retryAfter.t = "number"

\* Variant: the wait does not look at the retries left.
ShouldWaitAlways(c, rateLimitError) == Truthy(rateLimitError.retryAfter)

\* Line 206: a rate limit with a usable Retry-After and retries left.
ShouldWait(c, rateLimitError) ==
    attempt[c] < client.retries /\ Truthy(rateLimitError.retryAfter)

(***************************************************************************)
(* The fetch resolves and the timer is disarmed (lines 163-173); the body  *)
(* is then awaited with no timer armed, so nothing else of the call can    *)
(* run before it has been read: a response and its body arrive in one      *)
(* step.                                                                   *)
(*                                                                         *)
(* A non-2xx response, lines 178-224.  A 429 with a truthy retryAfter      *)
(* before the last attempt sleeps and continues (lines 206-210);           *)
(* everything else is thrown to the outer catch.                           *)
(***************************************************************************)
ErrorResponseOf(c, bodies) ==
    /\ pc[c] = "fetch"
    /\ \E status \in {st \in Statuses : ~ok(st)} :
       \E header \in (IF status = 429 THEN RetryAfterHeaders ELSE {NoHeader}) :
       \E body \in bodies :
          LET error == HttpError(status, errorMessage(status, body), header)
          IN  IF status = 429 /\ ShouldWait(c, error)
              THEN /\ sleeps' = [sleeps EXCEPT ![c] =
                          Append(@, ServerWait(error.retryAfter.v * 1000))]
                   /\ pc' = [pc EXCEPT ![c] = "sleep"]
                   /\ outcomes' = [outcomes EXCEPT ![c] =
                          Append(@, RespondedError(status, header, body))]
                   /\ logs' = log(c, <<ResponseLine(status),
                                       ErrorResponseLine(error.message),
                                       RateLimitedLine(error)>>)
                   /\ UNCHANGED <<lastError, thrown>>
              ELSE /\ Catch(c, error, RespondedError(status, header, body))
                   /\ logs' = log(c, <<ResponseLine(status),
                                       ErrorResponseLine(error.message)>>
                                       \o CatchLines(c, error))
    /\ timers' = [timers EXCEPT ![c] = @ \ {attempt[c]}]
    /\ UNCHANGED <<client, ctor, ctorThrown, method, debug,
                   attempt, fetches, sent, result>>

\* An error response whose body is not JSON.
ErrorResponse(c) == ErrorResponseOf(c, PlainBodies)

\* An error response with any body.
ErrorResponseWithMessage(c) == ErrorResponseOf(c, ErrorBodies)

(***************************************************************************)
(* A 2xx response, lines 228-252: the body is parsed and normalized; a     *)
(* body that is not JSON, or is the JSON null, throws an untyped error.    *)
(***************************************************************************)
SuccessResponse(c) ==
    /\ pc[c] = "fetch"
    /\ \E status \in {st \in Statuses : ok(st)} :
       \E body \in SuccessBodies :
          CASE body.parse = "syntax" ->
                  /\ Catch(c, JsonSyntaxError, Failed("badjson"))
                  /\ logs' = log(c, <<ResponseLine(status)>>
                                      \o CatchLines(c, JsonSyntaxError))
                  /\ UNCHANGED result
            [] body.parse = "null" ->
                  /\ Catch(c, NullBodyError, Failed("badjson"))
                  /\ logs' = log(c, <<ResponseLine(status)>>
                                      \o CatchLines(c, NullBodyError))
                  /\ UNCHANGED result
            [] OTHER ->
                  /\ result' = [result EXCEPT ![c] = normalize(body)]
                  /\ logs' = log(c, <<ResponseLine(status), DataLine(body),
                                      ReturnLine(normalize(body))>>)
                  /\ pc' = [pc EXCEPT ![c] = "returned"]
                  /\ outcomes' = [outcomes EXCEPT ![c] =
                         Append(@, Responded(status, NoHeader, body))]
                  /\ UNCHANGED <<lastError, sleeps, thrown>>
    /\ timers' = [timers EXCEPT ![c] = @ \ {attempt[c]}]
    /\ UNCHANGED <<client, ctor, ctorThrown, method, debug,
                   attempt, fetches, sent>>

(***************************************************************************)
(* The fetch resolves but reading the body rejects (the connection         *)
(* drops): response.text() or response.json() throws an untyped error.     *)
(***************************************************************************)
BodyFail(c) ==
    /\ pc[c] = "fetch"
    /\ Catch(c, BodyTerminated, Failed("bodyfail"))
    /\ \E status \in Statuses :
          logs' = log(c, <<ResponseLine(status)>>
                            \o CatchLines(c, BodyTerminated))
    /\ timers' = [timers EXCEPT ![c] = @ \ {attempt[c]}]
    /\ UNCHANGED <<client, ctor, ctorThrown, method, debug,
                   attempt, fetches, sent, result>>

(***************************************************************************)
(* A sleep ends (line 209 `continue`, or the end of the catch block, line  *)
(* 295): attempt++ and the head of the loop.                               *)
(***************************************************************************)
\* Variant: the loop forgets attempt++.
SleepDoneNoIncrement(c) ==
    /\ pc[c] = "sleep"
    /\ BeginAttempt(c, attempt[c], lastError[c])
    /\ logs' = log(c, RetryLines(attempt[c]))
    /\ UNCHANGED <<client, ctor, ctorThrown, method, debug,
                   attempt, lastError, sleeps, outcomes, result>>

\* Variant: the promise of sleep() is never resolved.
SleepDoneNeverResolves(c) ==
    /\ pc[c] = "sleep"
    /\ UNCHANGED vars

SleepDone(c) ==
    /\ pc[c] = "sleep"
    /\ attempt' = [attempt EXCEPT ![c] = @ + 1]
    /\ BeginAttempt(c, attempt[c] + 1, lastError[c])
    /\ logs' = log(c, RetryLines(attempt[c] + 1))
    /\ UNCHANGED <<client, ctor, ctorThrown, method, debug,
                   lastError, sleeps, outcomes, result>>

Next ==
    \E c \in CallIds :
       \/ Request(c)
       \/ FetchReject(c)
       \/ TimeoutFire(c)
       \/ ErrorResponse(c)
       \/ SuccessResponse(c)
       \/ BodyFail(c)
       \/ SleepDone(c)

Spec == Init /\ [][Next]_vars

(***************************************************************************)
(* The engine call under the assumptions that every fetch settles (it      *)
(* resolves, rejects, or is aborted by the timer of its attempt) and that  *)
(* every sleep completes.                                                  *)
(***************************************************************************)
Settle(c) ==
    \/ FetchReject(c)
    \/ ErrorResponse(c)
    \/ SuccessResponse(c)
    \/ BodyFail(c)
    \/ (TimeoutFire(c) /\ pc'[c] # pc[c])

\* The clients with the default retryDelay and timeout: how long a sleep
\* or a timer lasts is no part of the assumptions.
LiveInit == Init /\ client.timeout \in {0, DefaultTimeout}

LiveSpec ==
    /\ LiveInit
    /\ [][Next]_vars
    /\ \A c \in CallIds : WF_vars(Settle(c)) /\ WF_vars(SleepDone(c))

(***************************************************************************)
(* Two engine calls that run concurrently on one client (two promises of   *)
(* one event loop): each has its own activation of request(), so its own   *)
(* attempt, lastError, controller and timeoutId; the steps of the two      *)
(* interleave at the awaits.                                               *)
(***************************************************************************)
ConcCallIds == {1, 2}

\* A client that retries once, with the default delay and timeout.
ConcConfig ==
    [apiKey |-> "test_key", retries |-> Num(1), retryDelay |-> Undefined,
     retryStrategy |-> "undefined", timeout |-> Undefined,
     debug |-> "undefined"]

ConcInit ==
    /\ client = constructor(ConcConfig)
    /\ ctor = "ok"
    /\ ctorThrown = NoError
    /\ method = [c \in ConcCallIds |-> EngineCall]
    /\ pc = [c \in ConcCallIds |-> "idle"]
    /\ attempt = [c \in ConcCallIds |-> 0]
    /\ lastError = [c \in ConcCallIds |-> NoError]
    /\ timers = [c \in ConcCallIds |-> {}]
    /\ fetches = [c \in ConcCallIds |-> <<>>]
    /\ sent = [c \in ConcCallIds |-> <<>>]
    /\ sleeps = [c \in ConcCallIds |-> <<>>]
    /\ outcomes = [c \in ConcCallIds |-> <<>>]
    /\ result = [c \in ConcCallIds |-> NoResult]
    /\ thrown = [c \in ConcCallIds |-> NoError]
    /\ debug = [c \in ConcCallIds |-> debugOf(ConcConfig)]
    /\ logs = [c \in ConcCallIds |-> <<>>]

ConcNext ==
    \E c \in ConcCallIds :
       \/ Request(c)
       \/ FetchReject(c)
       \/ TimeoutFire(c)
       \/ ErrorResponse(c)
       \/ SuccessResponse(c)
       \/ BodyFail(c)
       \/ SleepDone(c)

ConcSpec == ConcInit /\ [][ConcNext]_vars

(***************************************************************************)
(* One engine call on a client that retries once, answered with error      *)
(* bodies of every kind: text, null, and objects with and without the      *)
(* message and error fields.                                               *)
(***************************************************************************)
MessageInit ==
    /\ client = constructor(ConcConfig)
    /\ ctor = "ok"
    /\ ctorThrown = NoError
    /\ method = [c \in CallIds |-> EngineCall]
    /\ pc = [c \in CallIds |-> "idle"]
    /\ attempt = [c \in CallIds |-> 0]
    /\ lastError = [c \in CallIds |-> NoError]
    /\ timers = [c \in CallIds |-> {}]
    /\ fetches = [c \in CallIds |-> <<>>]
    /\ sent = [c \in CallIds |-> <<>>]
    /\ sleeps = [c \in CallIds |-> <<>>]
    /\ outcomes = [c \in CallIds |-> <<>>]
    /\ result = [c \in CallIds |-> NoResult]
    /\ thrown = [c \in CallIds |-> NoError]
    /\ debug = [c \in CallIds |-> debugOf(ConcConfig)]
    /\ logs = [c \in CallIds |-> <<>>]

MessageNext ==
    \E c \in CallIds :
       \/ Request(c)
       \/ FetchReject(c)
       \/ TimeoutFire(c)
       \/ ErrorResponseWithMessage(c)
       \/ SuccessResponse(c)
       \/ BodyFail(c)
       \/ SleepDone(c)

MessageSpec == MessageInit /\ [][MessageNext]_vars

(***************************************************************************)
(* One call of getHistoricalPrices() on a client that retries once, with   *)
(* every combination of its options given or left out (types.ts, lines     *)
(* 168-204; the values are those of client.test.ts).                       *)
(***************************************************************************)
HistoricalOptions ==
    [period : {NoStr, Str("past_week")},
     commodity : {NoStr, Str("WTI_USD")},
     startDate : {NoStr, Str("2024-01-01")},
     endDate : {NoStr, Str("2024-12-31")},
     interval : {NoStr, Str("daily")},
     perPage : {Undefined, Num(100)},
     page : {Undefined, Num(2)}]

HistoricalCalls ==
    {Call("getHistoricalPrices", [NoArgs EXCEPT !.options = o]) :
        o \in HistoricalOptions}

HistoryInit ==
    /\ client = constructor(ConcConfig)
    /\ ctor = "ok"
    /\ ctorThrown = NoError
    /\ method \in [CallIds -> HistoricalCalls]
    /\ pc = [c \in CallIds |-> "idle"]
    /\ attempt = [c \in CallIds |-> 0]
    /\ lastError = [c \in CallIds |-> NoError]
    /\ timers = [c \in CallIds |-> {}]
    /\ fetches = [c \in CallIds |-> <<>>]
    /\ sent = [c \in CallIds |-> <<>>]
    /\ sleeps = [c \in CallIds |-> <<>>]
    /\ outcomes = [c \in CallIds |-> <<>>]
    /\ result = [c \in CallIds |-> NoResult]
    /\ thrown = [c \in CallIds |-> NoError]
    /\ debug = [c \in CallIds |-> debugOf(ConcConfig)]
    /\ logs = [c \in CallIds |-> <<>>]

HistorySpec == HistoryInit /\ [][Next]_vars

(***************************************************************************)
(* The same call made on two clients that retry once and differ in debug   *)
(* alone: call 1 on the client with debug set, call 2 on the other.        *)
(***************************************************************************)
DebugConfig(c) ==
    [ConcConfig EXCEPT !.debug = IF c = 1 THEN "true" ELSE "false"]

DebugInit ==
    /\ client = constructor(ConcConfig)
    /\ ctor = "ok"
    /\ ctorThrown = NoError
    /\ method = [c \in ConcCallIds |-> EngineCall]
    /\ pc = [c \in ConcCallIds |-> "idle"]
    /\ attempt = [c \in ConcCallIds |-> 0]
    /\ lastError = [c \in ConcCallIds |-> NoError]
    /\ timers = [c \in ConcCallIds |-> {}]
    /\ fetches = [c \in ConcCallIds |-> <<>>]
    /\ sent = [c \in ConcCallIds |-> <<>>]
    /\ sleeps = [c \in ConcCallIds |-> <<>>]
    /\ outcomes = [c \in ConcCallIds |-> <<>>]
    /\ result = [c \in ConcCallIds |-> NoResult]
    /\ thrown = [c \in ConcCallIds |-> NoError]
    /\ debug = [c \in ConcCallIds |-> debugOf(DebugConfig(c))]
    /\ logs = [c \in ConcCallIds |-> <<>>]

DebugSpec == DebugInit /\ [][ConcNext]_vars

(***************************************************************************)
(* The facade: the methods of diesel.ts and alerts.ts.  A method validates *)
(* its arguments and then either calls request() (Request above) or calls  *)
(* fetch() itself, once, with no timer and no loop around it.              *)
(***************************************************************************)
\* `new Error(message)`
PlainError(message) == UntypedError("Error", message)

\* The validation throws: the async method returns a rejected promise.
Invalid(c) ==
    /\ ctor = "ok"
    /\ pc[c] = "idle"
    /\ validate(method[c]) # ""
    /\ pc' = [pc EXCEPT ![c] = "raised"]
    /\ thrown' = [thrown EXCEPT ![c] = PlainError(Msg(validate(method[c])))]
    /\ UNCHANGED <<client, ctor, ctorThrown, method, debug, logs,
                   attempt, lastError,
                   timers, fetches, sent, sleeps, outcomes, result>>

\* The method calls fetch(): diesel.ts line 221, alerts.ts lines 310, 417,
\* 460 and 516.  No AbortController, no setTimeout.
DirectFetch(c) ==
    /\ ctor = "ok"
    /\ pc[c] = "idle"
    /\ method[c].name \in DirectMethods
    /\ validate(method[c]) = ""
    /\ pc' = [pc EXCEPT ![c] = "direct"]
    /\ fetches' = [fetches EXCEPT ![c] = Append(@, 0)]
    /\ sent' = [sent EXCEPT ![c] = Append(@, DirectRequest(method[c]))]
    /\ UNCHANGED <<client, ctor, ctorThrown, method, debug, logs,
                   attempt, lastError,
                   timers, sleeps, outcomes, result, thrown>>

\* The message of the plain Error for a non-2xx status: diesel.ts lines
\* 237-261, alerts.ts lines 329-332, 428-431, 469-472 and 527-530.
directErrorMessage(name, status, body) ==
    CASE name = "diesel.getStations" ->
            (CASE status = 403 ->
                    MsgWrap("Diesel station queries not available. %s",
                            status, errorMessage(status, body))
               [] status = 429 ->
                    MsgWrap("Diesel station query limit exceeded. %s",
                            status, errorMessage(status, body))
               [] OTHER -> errorMessage(status, body))
      [] name = "alerts.create" -> MsgN("Failed to create alert: %d %s", status)
      [] name = "alerts.update" -> MsgN("Failed to update alert: %d %s", status)
      [] name = "alerts.delete" -> MsgN("Failed to delete alert: %d %s", status)
      [] OTHER -> MsgN("Failed to test webhook: %d %s", status)

\* A non-2xx response: the method throws a plain Error.
DirectError(c) ==
    /\ pc[c] = "direct"
    /\ \E status \in {st \in Statuses : ~ok(st)} :
       \E body \in PlainBodies :
          /\ thrown' = [thrown EXCEPT ![c] =
                 PlainError(directErrorMessage(method[c].name, status, body))]
          /\ outcomes' = [outcomes EXCEPT ![c] =
                 Append(@, RespondedError(status, NoHeader, body))]
    /\ pc' = [pc EXCEPT ![c] = "raised"]
    /\ UNCHANGED <<client, ctor, ctorThrown, method, debug, logs,
                   attempt, lastError,
                   timers, fetches, sent, sleeps, result>>

\* What a method gives back of the parsed body; nothing is normalized.
Raw(body) == [shape |-> "raw", prices |-> <<>>, data |-> body.data]

\* A 2xx response: delete reads no body; the others parse it, and create
\* and update read its alert field, which throws when the body is null.
DirectSuccess(c) ==
    /\ pc[c] = "direct"
    /\ \E status \in {st \in Statuses : ok(st)} :
       \E body \in SuccessBodies :
          LET name == method[c].name
              error == IF name = "alerts.delete" THEN NoError
                       ELSE IF body.parse = "syntax" THEN JsonSyntaxError
                       ELSE IF /\ body.parse = "null"
                               /\ name \in {"alerts.create", "alerts.update"}
                       THEN NullBodyError
                       ELSE NoError
          IN  IF error # NoError
              THEN /\ pc' = [pc EXCEPT ![c] = "raised"]
                   /\ thrown' = [thrown EXCEPT ![c] = error]
                   /\ outcomes' = [outcomes EXCEPT ![c] =
                          Append(@, Failed("badjson"))]
                   /\ UNCHANGED result
              ELSE /\ pc' = [pc EXCEPT ![c] = "returned"]
                   /\ result' = [result EXCEPT ![c] =
                          IF name = "alerts.delete" THEN NoResult
                          ELSE Raw(body)]
                   /\ outcomes' = [outcomes EXCEPT ![c] =
                          Append(@, Responded(status, NoHeader, body))]
                   /\ UNCHANGED thrown
    /\ UNCHANGED <<client, ctor, ctorThrown, method, debug, logs,
                   attempt, lastError,
                   timers, fetches, sent, sleeps>>

\* The fetch rejects, or the read of the body does: the error of the
\* runtime leaves the method as it is.
DirectReject(c) ==
    /\ pc[c] = "direct"
    /\ \E error \in {FetchFailed, ConnectionReset, BodyTerminated} :
          /\ thrown' = [thrown EXCEPT ![c] = error]
          /\ outcomes' = [outcomes EXCEPT ![c] =
                 Append(@, Failed(IF error = BodyTerminated
                                  THEN "bodyfail" ELSE "network"))]
    /\ pc' = [pc EXCEPT ![c] = "raised"]
    /\ UNCHANGED <<client, ctor, ctorThrown, method, debug, logs,
                   attempt, lastError,
                   timers, fetches, sent, sleeps, result>>

\* A client with the default options, and one call of any facade method.
FacadeInit ==
    /\ \E config \in Configs :
          /\ ~apiKeyMissing(config)
          /\ config.retries.v >= 0
          /\ config.retryDelay = Undefined
          /\ config.retryStrategy = "undefined"
          /\ client = constructor(config)
          /\ debug = [c \in CallIds |-> debugOf(config)]
    /\ ctor = "ok"
    /\ ctorThrown = NoError
    /\ method \in [CallIds -> FacadeCalls]
    /\ pc = [c \in CallIds |-> "idle"]
    /\ attempt = [c \in CallIds |-> 0]
    /\ lastError = [c \in CallIds |-> NoError]
    /\ timers = [c \in CallIds |-> {}]
    /\ fetches = [c \in CallIds |-> <<>>]
    /\ sent = [c \in CallIds |-> <<>>]
    /\ sleeps = [c \in CallIds |-> <<>>]
    /\ outcomes = [c \in CallIds |-> <<>>]
    /\ result = [c \in CallIds |-> NoResult]
    /\ thrown = [c \in CallIds |-> NoError]
    /\ logs = [c \in CallIds |-> <<>>]

FacadeNext ==
    \/ Next
    \/ \E c \in CallIds :
          \/ Invalid(c)
          \/ DirectFetch(c)
          \/ DirectError(c)
          \/ DirectSuccess(c)
          \/ DirectReject(c)

FacadeSpec == FacadeInit /\ [][FacadeNext]_vars

(***************************************************************************)
(* Vocabulary of the properties.                                           *)
(***************************************************************************)
\* A client was constructed with an integer retries >= 0.
Ready == ctor = "ok" /\ client.retries >= 0

Last(seq) == seq[Len(seq)]

Terminated(c) == pc[c] \in {"returned", "raised"}

ServerStatuses == {500, 502, 503, 504}

IsServerFailure(o) == o.kind = "response" /\ o.status \in ServerStatuses

\* A status that is never retried: not 2xx, not 429, not a retried 5xx.
IsClientFailure(o) ==
    /\ o.kind = "response"
    /\ ~(o.status \in 200..299)
    /\ o.status \notin ({429} \cup ServerStatuses)

IsTransportFailure(o) == o.kind \in {"network", "bodyfail"}

IsTimeout(o) == o.kind = "timeout"

\* A 2xx response whose body was read and parsed.
IsSuccess(o) == o.kind = "response" /\ o.status \in 200..299

\* The name of the error kind of a status that is never retried.
ClientErrorName(status) ==
    CASE status = 401 -> "AuthenticationError"
      [] status = 404 -> "NotFoundError"
      [] OTHER -> "OilPriceAPIError"

AllOutcomes(c, P(_)) ==
    /\ outcomes[c] # <<>>
    /\ \A i \in 1..Len(outcomes[c]) : P(outcomes[c][i])

(***************************************************************************)
(* C1: with integer retries >= 0, one engine call issues at most           *)
(* retries + 1 network calls, and the attempt index of every network call  *)
(* lies in 0..retries.                                                     *)
(***************************************************************************)
C1_AttemptBudget ==
    Ready =>
       \A c \in CallIds :
          /\ Len(fetches[c]) <= client.retries + 1
          /\ \A i \in 1..Len(fetches[c]) : fetches[c][i] \in 0..client.retries

C1_Witness ==
    /\ Ready
    /\ client.retries = 2
    /\ Len(fetches[1]) = 3
    /\ fetches[1][3] = 2

(***************************************************************************)
(* C2: a response with status 401, 404 or any other non-2xx status outside *)
(* {429, 500, 502, 503, 504} ends the call at once: the matching error is  *)
(* raised, no network call and no sleep follows it whatever retries is,    *)
(* and when it answers the first attempt the call made exactly one network *)
(* call and never slept.                                                   *)
(***************************************************************************)
C2_ClientErrorsNotRetried ==
    Ready =>
       \A c \in CallIds :
          \A i \in 1..Len(outcomes[c]) :
             IsClientFailure(outcomes[c][i]) =>
                /\ i = Len(outcomes[c])
                /\ pc[c] = "raised"
                /\ thrown[c].name = ClientErrorName(outcomes[c][i].status)
                /\ thrown[c].statusCode = Num(outcomes[c][i].status)
                /\ Len(fetches[c]) = i
                /\ Len(sleeps[c]) = i - 1
                /\ (i = 1 => Len(fetches[c]) = 1 /\ sleeps[c] = <<>>)

C2_Witness ==
    /\ client.retries = 2
    /\ pc[1] = "raised"
    /\ Len(outcomes[1]) = 1
    /\ outcomes[1][1].status = 401
    /\ thrown[1].name = "AuthenticationError"
    /\ Len(fetches[1]) = 1
    /\ sleeps[1] = <<>>

(***************************************************************************)
(* C3: when the first k attempts (k <= retries) each fail with a retryable *)
(* failure (status 500/502/503/504, a timeout, a transport failure) and    *)
(* attempt k receives a 2xx response, the call issues exactly k + 1        *)
(* network calls and returns the normalized payload of that response; no   *)
(* error of the earlier attempts is raised.                                *)
(***************************************************************************)
IsRetryableFailure(o) ==
    IsServerFailure(o) \/ IsTimeout(o) \/ IsTransportFailure(o)

C3_RetryThenSuccess ==
    Ready =>
       \A c \in CallIds :
          LET n == Len(outcomes[c]) IN
          \* a retryable failure before the last allowed attempt raises nothing
          /\ \A i \in 1..n :
                (IsRetryableFailure(outcomes[c][i]) /\ i <= client.retries)
                   => (n = i => /\ pc[c] \in {"sleep", "fetch"}
                                 /\ thrown[c] = NoError)
          \* and the 2xx response that follows them is returned
          /\ (/\ n >= 1
              /\ IsSuccess(outcomes[c][n])
              /\ \A i \in 1..(n - 1) : IsRetryableFailure(outcomes[c][i]))
                => /\ pc[c] = "returned"
                   /\ Len(fetches[c]) = n
                   /\ result[c] = normalize(outcomes[c][n].body)
                   /\ thrown[c] = NoError

C3_Witness ==
    /\ client.retries = 2
    /\ pc[1] = "returned"
    /\ Len(outcomes[1]) = 3
    /\ outcomes[1][1].status = 500
    /\ outcomes[1][2].status = 500
    /\ outcomes[1][3].status = 200
    /\ Len(fetches[1]) = 3
    /\ result[1].shape = "wrapped"

(***************************************************************************)
(* C4: when every attempt receives a status in {500, 502, 503, 504} the    *)
(* call issues exactly retries + 1 network calls and then raises           *)
(* ServerError; with retries = 0 it issues one network call, does not      *)
(* sleep, and raises.                                                      *)
(***************************************************************************)
C4_ServerErrorsExhaust ==
    Ready =>
       \A c \in CallIds :
          AllOutcomes(c, IsServerFailure) =>
             LET n == Len(outcomes[c]) IN
             /\ n <= client.retries + 1
             /\ n <= client.retries => pc[c] \in {"sleep", "fetch"}
             /\ n = client.retries + 1 =>
                   /\ pc[c] = "raised"
                   /\ thrown[c].name = "ServerError"
                   /\ thrown[c].code = "SERVER_ERROR"
                   /\ thrown[c].statusCode = Num(outcomes[c][n].status)
                   /\ Len(fetches[c]) = client.retries + 1
                   /\ Len(sleeps[c]) = client.retries
             /\ client.retries = 0 =>
                   Len(fetches[c]) = 1 /\ sleeps[c] = <<>> /\ pc[c] = "raised"

C4_Witness ==
    /\ client.retries = 2
    /\ AllOutcomes(1, IsServerFailure)
    /\ Len(outcomes[1]) = 3
    /\ outcomes[1][3].status = 504
    /\ pc[1] = "raised"
    /\ thrown[1].name = "ServerError"
    /\ Len(fetches[1]) = 3

(***************************************************************************)
(* Retry-After.  A header has the integer value n when it is the decimal   *)
(* rendering of n.                                                         *)
(***************************************************************************)
HasRetryAfter(o, n) ==
    o.kind = "response" /\ o.status = 429 /\ o.retryAfter = Header(Decimal(n))

\* A 429 whose Retry-After is a non-zero integer.
IsServerDirected(o) == \E n \in RetryAfterSeconds \ {0} : HasRetryAfter(o, n)

ServerWaits(c) ==
    {i \in 1..Len(sleeps[c]) : sleeps[c][i].kind = "retry-after"}

\* One sleep, and only one, lies between two attempts; none before the
\* first attempt and none after the last.
OneSleepPerGap(c) ==
    /\ pc[c] = "idle" => fetches[c] = <<>> /\ sleeps[c] = <<>>
    /\ pc[c] = "sleep" =>
          Len(sleeps[c]) = Len(fetches[c]) /\ Len(outcomes[c]) = Len(fetches[c])
    /\ pc[c] = "fetch" =>
          /\ Len(sleeps[c]) = Len(fetches[c]) - 1
          /\ Len(outcomes[c]) = Len(fetches[c]) - 1
    /\ Terminated(c) =>
          /\ Len(sleeps[c]) = Len(fetches[c]) - 1
          /\ Len(outcomes[c]) = Len(fetches[c])

(***************************************************************************)
(* C5, as stated: a 429 whose Retry-After header has the integer value n,  *)
(* with an attempt remaining, is followed by a sleep of exactly n * 1000   *)
(* ms and not by the backoff delay.                                        *)
(***************************************************************************)
C5_AsStated ==
    Ready =>
       \A c \in CallIds :
          \A i \in 1..Len(outcomes[c]) :
             \A n \in RetryAfterSeconds :
                (HasRetryAfter(outcomes[c][i], n) /\ i <= client.retries)
                   => /\ Len(sleeps[c]) >= i
                      /\ sleeps[c][i] = ServerWait(n * 1000)

(***************************************************************************)
(* C5, amended: a 429 whose Retry-After header has a non-zero integer      *)
(* value n, with an attempt remaining, is followed by one sleep of exactly *)
(* n * 1000 ms, the only sleep before the next attempt; the wait uses up   *)
(* one attempt, so a server that answers every attempt with such a 429     *)
(* sees exactly retries + 1 network calls.  (Retry-After: 0 is followed by *)
(* the backoff delay.)                                                     *)
(***************************************************************************)
C5_RetryAfterWait ==
    Ready =>
       \A c \in CallIds :
          /\ OneSleepPerGap(c)
          /\ \A i \in 1..Len(outcomes[c]) :
                \A n \in RetryAfterSeconds \ {0} :
                   (HasRetryAfter(outcomes[c][i], n) /\ i <= client.retries)
                      => /\ Len(sleeps[c]) >= i
                         /\ sleeps[c][i] = ServerWait(n * 1000)
          /\ AllOutcomes(c, IsServerDirected) =>
                /\ Len(fetches[c]) <= client.retries + 1
                /\ Terminated(c) <=> Len(outcomes[c]) = client.retries + 1
                /\ Terminated(c) =>
                      /\ Len(fetches[c]) = client.retries + 1
                      /\ pc[c] = "raised"
                      /\ thrown[c].name = "RateLimitError"

C5_Witness ==
    /\ client.retries = 1
    /\ client.retryDelay = 1000
    /\ Len(outcomes[1]) = 2
    /\ HasRetryAfter(outcomes[1][1], 60)
    /\ HasRetryAfter(outcomes[1][2], 60)
    /\ sleeps[1] = <<ServerWait(60000)>>
    /\ Len(fetches[1]) = 2
    /\ pc[1] = "raised"

(***************************************************************************)
(* C6, as stated: within one engine call the Retry-After sleep happens at  *)
(* most once.                                                              *)
(***************************************************************************)
C6_AsStated ==
    Ready => \A c \in CallIds : Cardinality(ServerWaits(c)) <= 1

(***************************************************************************)
(* C6, amended: within one engine call the Retry-After sleep happens at    *)
(* most retries times, once for every attempt before the last that is      *)
(* answered 429 with a non-zero Retry-After; such a 429 is terminal        *)
(* (RateLimitError is raised without a wait) only when it answers the last *)
(* allowed attempt, however many waits were taken before.                  *)
(***************************************************************************)
C6_WaitPerAttempt ==
    Ready =>
       \A c \in CallIds :
          /\ Cardinality(ServerWaits(c)) <= client.retries
          /\ \A i \in 1..Len(outcomes[c]) :
                IsServerDirected(outcomes[c][i]) =>
                   /\ i <= client.retries =>
                         Len(sleeps[c]) >= i /\ sleeps[c][i].kind = "retry-after"
                   /\ i = client.retries + 1 =>
                         /\ pc[c] = "raised"
                         /\ thrown[c].name = "RateLimitError"
                         /\ Len(sleeps[c]) = client.retries

C6_Witness ==
    /\ client.retries = 2
    /\ AllOutcomes(1, IsServerDirected)
    /\ Len(outcomes[1]) = 3
    /\ Cardinality(ServerWaits(1)) = 2
    /\ pc[1] = "raised"
    /\ thrown[1].name = "RateLimitError"

(***************************************************************************)
(* C7: when the call ends on a 429 response whose Retry-After header has   *)
(* the integer value n, the RateLimitError raised has retryAfter = n,      *)
(* statusCode = 429 and code = RATE_LIMIT_ERROR, and no Retry-After sleep  *)
(* was made for that response.                                             *)
(***************************************************************************)
C7_RateLimitErrorFields ==
    Ready =>
       \A c \in CallIds :
          \A n \in RetryAfterSeconds :
             (/\ pc[c] = "raised"
              /\ outcomes[c] # <<>>
              /\ HasRetryAfter(Last(outcomes[c]), n))
                => /\ thrown[c].name = "RateLimitError"
                   /\ thrown[c].retryAfter = Num(n)
                   /\ thrown[c].statusCode = Num(429)
                   /\ thrown[c].code = "RATE_LIMIT_ERROR"
                   /\ Len(sleeps[c]) = Len(outcomes[c]) - 1

C7_Witness ==
    /\ client.retries = 0
    /\ pc[1] = "raised"
    /\ Len(outcomes[1]) = 1
    /\ HasRetryAfter(outcomes[1][1], 60)
    /\ thrown[1].name = "RateLimitError"
    /\ thrown[1].retryAfter = Num(60)
    /\ sleeps[1] = <<>>

(***************************************************************************)
(* The delay of the policy, as the specification states it.                *)
(***************************************************************************)
ExpectedDelay(i, strategy, d) ==
    CASE strategy = "exponential" -> d * 2^i
      [] strategy = "linear" -> d * (i + 1)
      [] strategy = "fixed" -> d

ExpectedBackoff(i) ==
    Backoff(ExpectedDelay(i - 1, client.retryStrategy, client.retryDelay))

(***************************************************************************)
(* C8: when the server never answers, every attempt is cancelled by its    *)
(* own timer and ends as a TimeoutError; the timeout does not end the      *)
(* retry loop, which makes exactly retries + 1 attempts with the backoff   *)
(* between them; then the call raises TimeoutError, whose message holds    *)
(* the configured timeout, with no statusCode and code TIMEOUT_ERROR.      *)
(***************************************************************************)
C8_TimeoutsAreRetried ==
    Ready =>
       \A c \in CallIds :
          AllOutcomes(c, IsTimeout) =>
             LET n == Len(outcomes[c]) IN
             \* the only timer armed is the one of the attempt in flight
             /\ timers[c] = IF pc[c] = "fetch" THEN {attempt[c]} ELSE {}
             /\ lastError[c].name = "TimeoutError"
             /\ n <= client.retries + 1
             /\ n <= client.retries => pc[c] \in {"sleep", "fetch"}
             /\ \A i \in 1..Len(sleeps[c]) : sleeps[c][i] = ExpectedBackoff(i)
             /\ n = client.retries + 1 =>
                   /\ pc[c] = "raised"
                   /\ Len(fetches[c]) = client.retries + 1
                   /\ Len(sleeps[c]) = client.retries
                   /\ thrown[c].name = "TimeoutError"
                   /\ thrown[c].message =
                         MsgN("Request timeout (%dms)", client.timeout)
                   /\ thrown[c].statusCode = Undefined
                   /\ thrown[c].code = "TIMEOUT_ERROR"

C8_Witness ==
    /\ client.retries = 2
    /\ client.timeout = TestTimeout
    /\ AllOutcomes(1, IsTimeout)
    /\ Len(fetches[1]) = 3
    /\ Len(sleeps[1]) = 2
    /\ pc[1] = "raised"
    /\ thrown[1].name = "TimeoutError"
    /\ thrown[1].message.arg = TestTimeout

(***************************************************************************)
(* C9: between the failed attempt i and attempt i + 1, for a retryable     *)
(* failure other than the Retry-After case, the engine sleeps exactly      *)
(* delay(i, strategy, retryDelay), i from 0; there is no sleep before the  *)
(* first attempt and none after the last allowed attempt.  With retries =  *)
(* 2, retryDelay = 100, exponential and a server that always answers 500   *)
(* the sleeps are 100, 200 and then the error.                             *)
(***************************************************************************)
Always500(c) ==
    /\ client.retries = 2
    /\ client.retryDelay = 100
    /\ client.retryStrategy = "exponential"
    /\ \A i \in 1..Len(outcomes[c]) :
          outcomes[c][i].kind = "response" /\ outcomes[c][i].status = 500
    /\ pc[c] = "raised"

C9_BackoffBetweenAttempts ==
    Ready =>
       \A c \in CallIds :
          /\ OneSleepPerGap(c)
          /\ Len(sleeps[c]) <= client.retries
          /\ \A i \in 1..Len(sleeps[c]) :
                ~IsServerDirected(outcomes[c][i])
                   => sleeps[c][i] = ExpectedBackoff(i)
          /\ Always500(c) =>
                /\ sleeps[c] = <<Backoff(100), Backoff(200)>>
                /\ thrown[c].name = "ServerError"

C9_Witness ==
    /\ Always500(1)
    /\ Len(fetches[1]) = 3
    /\ sleeps[1] = <<Backoff(100), Backoff(200)>>

(***************************************************************************)
(* C10: for every base delay d > 0 and attempt index i >= 0,               *)
(* calculateRetryDelay gives d * 2^i for exponential, d * (i + 1) for      *)
(* linear and d for fixed: d, 2d, 4d / d, 2d, 3d / d, d, d for i = 0, 1,   *)
(* 2.                                                                      *)
(***************************************************************************)
C10_DelayTable ==
    ctor = "ok" =>
       LET d == client.retryDelay
           s == client.retryStrategy
           delays == <<calculateRetryDelay(0), calculateRetryDelay(1),
                       calculateRetryDelay(2)>>
       IN  /\ d > 0
           /\ \A i \in 0..MaxDelayIndex :
                 calculateRetryDelay(i) = ExpectedDelay(i, s, d)
           /\ s = "exponential" => delays = <<d, 2 * d, 4 * d>>
           /\ s = "linear" => delays = <<d, 2 * d, 3 * d>>
           /\ s = "fixed" => delays = <<d, d, d>>

C10_Witness ==
    /\ client.retryStrategy = "linear"
    /\ client.retryDelay = TestRetryDelay
    /\ Len(sleeps[1]) = 2
    /\ sleeps[1][2] = Backoff(2 * TestRetryDelay)
    /\ calculateRetryDelay(2) = 3 * TestRetryDelay

(***************************************************************************)
(* The error kind, statusCode and code that belong to a non-2xx status.    *)
(***************************************************************************)
Classification(status) ==
    CASE status = 401 -> <<"AuthenticationError", "AUTHENTICATION_ERROR">>
      [] status = 404 -> <<"NotFoundError", "NOT_FOUND_ERROR">>
      [] status = 429 -> <<"RateLimitError", "RATE_LIMIT_ERROR">>
      [] status \in ServerStatuses -> <<"ServerError", "SERVER_ERROR">>
      [] OTHER -> <<"OilPriceAPIError", "HTTP_ERROR">>

IsClassified(error, status) ==
    /\ error.name = Classification(status)[1]
    /\ error.statusCode = Num(status)
    /\ error.code = Classification(status)[2]
    /\ error.typed

\* The latest attempt was answered with a non-2xx status.
EndedOnStatus(c) ==
    /\ outcomes[c] # <<>>
    /\ Last(outcomes[c]).kind = "response"
    /\ Last(outcomes[c]).status \notin 200..299

\* The latest attempt was followed by the Retry-After wait: its error was
\* never handed to the retry decision.
WaitedOnLast(c) ==
    /\ Len(sleeps[c]) >= Len(outcomes[c])
    /\ sleeps[c][Len(outcomes[c])].kind = "retry-after"

(***************************************************************************)
(* C11: a non-2xx status S is classified 401 -> AuthenticationError (401,  *)
(* AUTHENTICATION_ERROR), 404 -> NotFoundError (404, NOT_FOUND_ERROR),     *)
(* 429 -> RateLimitError (429, RATE_LIMIT_ERROR), 500/502/503/504 ->       *)
(* ServerError (S, SERVER_ERROR), any other S -> OilPriceAPIError (S,      *)
(* HTTP_ERROR); every kind is an instance of the base kind.  This holds of *)
(* the error kept for the retry decision and of the error raised.          *)
(***************************************************************************)
C11_StatusClassification ==
    ctor = "ok" =>
       \A c \in CallIds :
          (EndedOnStatus(c) /\ ~WaitedOnLast(c)) =>
             /\ IsClassified(lastError[c], Last(outcomes[c]).status)
             /\ pc[c] = "raised" =>
                   IsClassified(thrown[c], Last(outcomes[c]).status)

C11_Witness ==
    /\ client.retries = 1
    /\ pc[1] = "raised"
    /\ Len(outcomes[1]) = 2
    /\ outcomes[1][1].status = 503
    /\ outcomes[1][2].status = 404
    /\ thrown[1].name = "NotFoundError"
    /\ thrown[1].code = "NOT_FOUND_ERROR"
    /\ thrown[1].statusCode = Num(404)

(***************************************************************************)
(* What the three branches give for a data payload: the prices collection, *)
(* else data wrapped in a one-element sequence, else data itself.          *)
(***************************************************************************)
Unchanged(data) == [shape |-> "data", prices |-> <<>>, data |-> data]

ByData(data) ==
    IF data.defined /\ data.prices.has
    THEN [shape |-> "prices", prices |-> data.prices.v[1], data |-> NoData]
    ELSE IF data.defined /\ data.price.has
    THEN [shape |-> "wrapped", prices |-> <<>>, data |-> data]
    ELSE Unchanged(data)

(***************************************************************************)
(* C12, as stated: for every 2xx envelope the result is the prices         *)
(* collection when data has one (an empty one too), else a one-element     *)
(* sequence holding data when data has a price, else data unchanged; the   *)
(* result depends on no other field of the envelope.                       *)
(***************************************************************************)
C12_AsStated ==
    \A c \in CallIds :
       pc[c] = "returned" => result[c] = ByData(Last(outcomes[c]).body.data)

(***************************************************************************)
(* C12, amended: for every 2xx envelope whose status field is 'success'    *)
(* the result is the prices collection when data has one (an empty one     *)
(* too), else a one-element sequence holding data when data has a price,   *)
(* else data unchanged, the prices branch first; for an envelope with any  *)
(* other status the result is data unchanged, whatever data holds.  The    *)
(* result depends on the status and data fields only.                      *)
(***************************************************************************)
C12_Normalization ==
    \A c \in CallIds :
       pc[c] = "returned" =>
          LET envelope == Last(outcomes[c]).body IN
          result[c] = IF envelope.status = "success"
                      THEN ByData(envelope.data)
                      ELSE Unchanged(envelope.data)

C12_Witness ==
    /\ pc[1] = "returned"
    /\ Last(outcomes[1]).body.status = "success"
    /\ Last(outcomes[1]).body.data.prices = Present(<<>>)
    /\ Last(outcomes[1]).body.data.price.has
    /\ result[1].shape = "prices"
    /\ result[1].prices = <<>>

(***************************************************************************)
(* C14: when every attempt fails with a raw transport failure (the fetch   *)
(* rejects with an untyped error) the failure is retried with the backoff  *)
(* on every attempt but the last, the call issues exactly retries + 1      *)
(* network calls and then raises the base OilPriceAPIError with code       *)
(* NETWORK_ERROR and no statusCode.                                        *)
(***************************************************************************)
IsFetchRejection(o) == o.kind = "network"

C14_TransportFailuresExhaust ==
    Ready =>
       \A c \in CallIds :
          AllOutcomes(c, IsFetchRejection) =>
             LET n == Len(outcomes[c]) IN
             /\ ~lastError[c].typed
             /\ n <= client.retries + 1
             /\ n <= client.retries => pc[c] \in {"sleep", "fetch"}
             /\ \A i \in 1..Len(sleeps[c]) : sleeps[c][i] = ExpectedBackoff(i)
             /\ n = client.retries + 1 =>
                   /\ pc[c] = "raised"
                   /\ Len(fetches[c]) = client.retries + 1
                   /\ Len(sleeps[c]) = client.retries
                   /\ thrown[c].name = "OilPriceAPIError"
                   /\ thrown[c].typed
                   /\ thrown[c].code = "NETWORK_ERROR"
                   /\ thrown[c].statusCode = Undefined

C14_Witness ==
    /\ client.retries = 2
    /\ AllOutcomes(1, IsFetchRejection)
    /\ pc[1] = "raised"
    /\ Len(fetches[1]) = 3
    /\ Len(sleeps[1]) = 2
    /\ thrown[1].code = "NETWORK_ERROR"
    /\ thrown[1].message.inner = "read ECONNRESET"

(***************************************************************************)
(* C18: within one engine call the attempts are strictly sequential: at    *)
(* most one network call is in flight, and attempt N + 1 is issued only    *)
(* after attempt N has reached its outcome and the sleep that follows it   *)
(* has been made; the attempts are issued in the order 0, 1, 2, ...        *)
(***************************************************************************)
InFlight(c) == Len(fetches[c]) - Len(outcomes[c])

C18_SequentialAttempts ==
    ctor = "ok" =>
       \A c \in CallIds :
          /\ InFlight(c) \in {0, 1}
          /\ InFlight(c) = 1 <=> pc[c] = "fetch"
          /\ \A i \in 1..Len(fetches[c]) : fetches[c][i] = i - 1
          \* every attempt but the latest has its outcome and its sleep
          /\ Len(outcomes[c]) >= Len(fetches[c]) - 1
          /\ Len(sleeps[c]) >= Len(fetches[c]) - 1
          /\ pc[c] = "sleep" => InFlight(c) = 0

C18_Witness ==
    /\ client.retries = 2
    /\ pc[1] = "fetch"
    /\ fetches[1] = <<0, 1, 2>>
    /\ Len(outcomes[1]) = 2
    /\ Len(sleeps[1]) = 2
    /\ outcomes[1][1].kind = "timeout"
    /\ outcomes[1][2].kind = "network"

(***************************************************************************)
(* C13: constructing a client with an empty or missing apiKey fails at     *)
(* once with OilPriceAPIError('API key is required'): no client object     *)
(* results and no network call is ever issued.  A client that exists has a *)
(* non-empty apiKey.                                                       *)
(***************************************************************************)
C13_ApiKeyRequired ==
    /\ ctor = "ok" =>
          /\ client.apiKey \notin {"", "undefined"}
          /\ ctorThrown = NoError
    /\ ctor = "threw" =>
          /\ ctorThrown.name = "OilPriceAPIError"
          /\ ctorThrown.typed
          /\ ctorThrown.message = Msg("API key is required")
          /\ client = NoClient
          /\ \A c \in CallIds :
                pc[c] = "idle" /\ fetches[c] = <<>> /\ sent[c] = <<>>

C13_Witness ==
    /\ ctor = "threw"
    /\ ctorThrown.message = Msg("API key is required")
    /\ client = NoClient
    /\ fetches[1] = <<>>

(***************************************************************************)
(* The facade.  A failure of a network call: a non-2xx status, a timeout   *)
(* or a transport failure.                                                 *)
(***************************************************************************)
IsCallFailure(o) ==
    \/ o.kind = "response" /\ o.status \notin 200..299
    \/ o.kind \in {"timeout", "network"}

(***************************************************************************)
(* C15, as stated: the network call of every facade method, the            *)
(* body-bearing ones included, has the per-attempt timeout timer armed     *)
(* while it is in flight and is retried like the GET calls: a server that  *)
(* answers every attempt with 500/502/503/504 sees retries + 1 network     *)
(* calls before the method fails.                                          *)
(***************************************************************************)
C15_UniformResilience ==
    \A c \in CallIds :
       /\ pc[c] \in {"fetch", "direct"} => attempt[c] \in timers[c]
       /\ (AllOutcomes(c, IsServerFailure) /\ Terminated(c))
             => Len(fetches[c]) = client.retries + 1

(***************************************************************************)
(* C16, as stated: every failure a facade method surfaces after a network  *)
(* call (non-2xx status, timeout, transport failure) is raised, and raised *)
(* as an instance of OilPriceAPIError, never as a plain error; for the     *)
(* methods that call request() and for the alerts and diesel methods       *)
(* alike.                                                                  *)
(***************************************************************************)
C16_TypedFailures ==
    \A c \in CallIds :
       (/\ Terminated(c)
        /\ outcomes[c] # <<>>
        /\ IsCallFailure(Last(outcomes[c])))
          => /\ pc[c] = "raised"
             /\ thrown[c] # NoError
             /\ thrown[c].typed

(***************************************************************************)
(* The malformed arguments of diesel.test.ts and alerts.test.ts.           *)
(***************************************************************************)
BadUrls == {Str("http://insecure.com"), Str("not-a-url")}

MalformedByTests(m) ==
    LET a == m.args
        p == m.args.params
    IN  CASE m.name = "diesel.getPrice" -> a.str \in {Str("C"), Str("CAL")}
          [] m.name = "diesel.getStations" ->
                \/ a.lat \in {Num(-91), Num(91)}
                \/ a.lng \in {Num(-181), Num(181)}
                \/ a.radius \in {Num(-100), Num(50001)}
          [] m.name \in {"alerts.get", "alerts.delete"} -> a.str \in BadIds
          [] m.name = "alerts.create" ->
                \/ p.name \in {Str(""), Str(LongName), Null}
                \/ p.commodity_code \in {Str(""), Null}
                \/ p.condition_operator \in {Str("invalid"), Str("")}
                \/ p.condition_value \in {Num(0), Num(-5), Num(1000001), NotNum}
                \/ p.webhook_url \in BadUrls \cup {NotStr}
                \/ p.cooldown_minutes \in {Num(-1), Num(1441), NotNum}
          [] m.name = "alerts.update" ->
                \/ a.str \in {Str(""), Null}
                \/ p.name \in {Str(""), Str(LongName)}
                \/ p.condition_operator = Str("invalid")
                \/ p.condition_value \in {Num(0), Num(1000001)}
                \/ p.webhook_url \in BadUrls
                \/ p.cooldown_minutes \in {Num(-1), Num(1441)}
          [] m.name = "alerts.testWebhook" ->
                a.str \in BadUrls \cup {Str(""), Null}
          [] OTHER -> FALSE

C20_StandardHeaders ==
    \A c \in CallIds :
       /\ Len(sent[c]) = Len(fetches[c])
       /\ \A i \in 1..Len(sent[c]) :
             /\ sent[c][i].authorization = Bearer(client.apiKey)
             /\ sent[c][i].contentType = "application/json"
             /\ sent[c][i].userAgent.sdk = "oilpriceapi-node"

(***************************************************************************)
(* Concurrent calls.  The locals of one activation of request() and what   *)
(* its caller sees of it.                                                  *)
(***************************************************************************)
Locals(c) ==
    <<pc[c], attempt[c], lastError[c], timers[c], fetches[c], sent[c],
      sleeps[c], outcomes[c], result[c], thrown[c]>>

\* What a call shows of its end: how it ended, with which kind of error
\* or which value, after how many network calls and which sleeps.
Ending(c) ==
    <<pc[c], thrown[c].name, thrown[c].statusCode, thrown[c].code,
      thrown[c].retryAfter, result[c], Len(fetches[c]), sleeps[c]>>

\* The state of a call is the one its own outcomes lead to.
OwnCourse(c) ==
    /\ OneSleepPerGap(c)
    /\ Len(fetches[c]) <= client.retries + 1
    /\ \A i \in 1..Len(fetches[c]) : fetches[c][i] = i - 1
    /\ attempt[c] = IF fetches[c] = <<>> THEN 0 ELSE Len(fetches[c]) - 1
    /\ timers[c] \subseteq 0..attempt[c]
    /\ pc[c] = "fetch" => attempt[c] \in timers[c]
    /\ (Terminated(c) /\ AllOutcomes(c, IsRetryableFailure))
          => Len(fetches[c]) = client.retries + 1

(***************************************************************************)
(* C19: for two engine calls running concurrently on one client, under     *)
(* every interleaving: a step of one call changes nothing of the other     *)
(* call (its attempt counter, its timers, its network call in flight, its  *)
(* outcome) nor the client; each call makes the attempts its own outcomes  *)
(* lead to, so a failure of one call uses none of the other's retry        *)
(* budget and a timeout of one call does not end the other's request; and  *)
(* two calls whose network calls ended the same way end the same way.      *)
(***************************************************************************)
C19_IndependentCalls ==
    [][/\ client' = client
       /\ \A c, d \in ConcCallIds :
             (c # d /\ Locals(c)' # Locals(c)) => Locals(d)' = Locals(d)
       /\ \A c \in ConcCallIds : OwnCourse(c)'
       /\ \A c, d \in ConcCallIds :
             (Terminated(c)' /\ Terminated(d)' /\ outcomes'[c] = outcomes'[d])
                => Ending(c)' = Ending(d)']_vars

C19_Witness ==
    /\ DOMAIN pc = ConcCallIds
    /\ pc[1] = "fetch"
    /\ pc[2] = "fetch"
    /\ Len(outcomes[1]) = 1
    /\ outcomes[1][1].kind = "timeout"
    /\ attempt[1] = 1
    /\ timers[1] = {1}
    /\ attempt[2] = 0
    /\ timers[2] = {0}
    /\ outcomes[2] = <<>>

(***************************************************************************)
(* C21: the engine keeps nothing between calls.  Of two calls of the same  *)
(* method with the same arguments, each issues its own network calls, the  *)
(* same request every time (URL, verb, headers); each starts at attempt 0  *)
(* and, as long as its failures can be retried, uses the whole budget of   *)
(* retries + 1 attempts; and what it returns or raises is determined by    *)
(* the responses and failures of its own network calls, whatever the other *)
(* call did.                                                               *)
(***************************************************************************)
SameAnswers(c, d) ==
    outcomes[c] = outcomes[d] /\ lastError[c] = lastError[d]

C21_NoStateBetweenCalls ==
    \A c \in DOMAIN pc :
       pc[c] # "idle" =>
          /\ fetches[c] # <<>>
          /\ fetches[c] = [i \in 1..Len(fetches[c]) |-> i - 1]
          /\ Len(sent[c]) = Len(fetches[c])
          /\ \A d \in DOMAIN pc :
                (pc[d] # "idle" /\ method[d] = method[c]) =>
                   \A i \in 1..Len(sent[c]), j \in 1..Len(sent[d]) :
                      sent[c][i] = sent[d][j]
          /\ (pc[c] = "raised"
                /\ (~lastError[c].typed \/ isRetryable(lastError[c])))
                => Len(fetches[c]) = client.retries + 1
          /\ \A d \in DOMAIN pc :
                (Terminated(c) /\ Terminated(d) /\ SameAnswers(c, d)) =>
                   /\ pc[c] = pc[d]
                   /\ result[c] = result[d]
                   /\ thrown[c] = thrown[d]
                   /\ sleeps[c] = sleeps[d]

\* The first call has returned a payload; the second, made with the same
\* arguments, has used its whole budget and failed.
C21_Witness ==
    /\ method[1] = method[2]
    /\ pc[1] = "returned"
    /\ pc[2] = "raised"
    /\ fetches[1] = <<0>>
    /\ Len(fetches[2]) = client.retries + 1
    /\ fetches[2][1] = 0
    /\ sent[2][1] = sent[1][1]



(***************************************************************************)
(* C22: the message of the error for a non-2xx response is the message     *)
(* field of the JSON body when it is not empty, else its error field when  *)
(* that is not empty, else "HTTP <status>: <statusText>" (also when the    *)
(* body is not JSON).  Whatever the body is, the kind of the error is that *)
(* of the status, and the call goes on to a retry exactly when the status  *)
(* is retried and an attempt is left.                                      *)
(***************************************************************************)
MessageOfBody(status, body) ==
    IF body.parse = "object" /\ body.message # "" THEN Msg(body.message)
    ELSE IF body.parse = "object" /\ body.error # "" THEN Msg(body.error)
    ELSE [fmt |-> "HTTP %d: %s", arg |-> status, inner |-> ""]

C22_MessageFromBody ==
    \A c \in CallIds :
       (EndedOnStatus(c) /\ pc[c] \in {"sleep", "raised"}) =>
          LET o == Last(outcomes[c]) IN
          /\ ~WaitedOnLast(c) =>
                /\ lastError[c].message = MessageOfBody(o.status, o.errorBody)
                /\ IsClassified(lastError[c], o.status)
                /\ pc[c] = "raised" => thrown[c] = lastError[c]
          /\ pc[c] = "sleep" <=>
                /\ o.status \in ({429} \cup ServerStatuses)
                /\ Len(outcomes[c]) <= client.retries

\* A 500 with a body that is not JSON was retried; the 401 that followed
\* carried both fields, and the message field made the message.
C22_Witness ==
    /\ Len(outcomes[1]) = 2
    /\ outcomes[1][1].status = 500
    /\ outcomes[1][1].errorBody.parse = "text"
    /\ outcomes[1][2].status = 401
    /\ outcomes[1][2].errorBody =
          ErrorBody("object", "Invalid API key", "unauthorized")
    /\ pc[1] = "raised"
    /\ thrown[1].name = "AuthenticationError"
    /\ thrown[1].message = Msg("Invalid API key")



(***************************************************************************)
(* C23, as stated: every network call of getHistoricalPrices() is a GET to *)
(* /v1/prices/past_year, and its query holds period, by_code, start_date,  *)
(* end_date, interval, per_page and page exactly when the option period,   *)
(* commodity, startDate, endDate, interval, perPage and page was given.    *)
(***************************************************************************)
HasParam(url, key) == \E i \in 1..Len(url.query) : url.query[i][1] = key

Given(option) == option \notin {NoStr, Undefined}

C23_HistoricalEndpoint ==
    \A c \in CallIds :
       method[c].name = "getHistoricalPrices" =>
          \A i \in 1..Len(sent[c]) :
             LET url == sent[c][i].url
                 options == method[c].args.options
             IN  /\ sent[c][i].verb = "GET"
                 /\ url.path = "/v1/prices/past_year"
                 /\ HasParam(url, "period") <=> Given(options.period)
                 /\ HasParam(url, "by_code") <=> Given(options.commodity)
                 /\ HasParam(url, "start_date") <=> Given(options.startDate)
                 /\ HasParam(url, "end_date") <=> Given(options.endDate)
                 /\ HasParam(url, "interval") <=> Given(options.interval)
                 /\ HasParam(url, "per_page") <=> Given(options.perPage)
                 /\ HasParam(url, "page") <=> Given(options.page)



(***************************************************************************)
(* C24: no line written with debug set contains the apiKey of the client;  *)
(* and a call made with debug set issues the same network calls, sleeps    *)
(* the same sleeps and ends the same way as the call that got the same     *)
(* answers with debug unset.                                               *)
(***************************************************************************)
Includes(s, sub) ==
    \E k \in 1..(Len(s) - Len(sub) + 1) :
       SubSeq(s, k, k + Len(sub) - 1) = sub

Mentions(line, secret) == \E i \in 1..Len(line) : Includes(line[i], secret)

C25_TimersDisarmed ==
    \A c \in CallIds :
       /\ Cardinality(timers[c]) <= 1
       /\ pc[c] = "fetch" => timers[c] \subseteq {attempt[c]}
       /\ pc[c] # "fetch" => timers[c] = {}



(***************************************************************************)
(* C26: on a client with retries >= 0, when every fetch settles and every  *)
(* sleep completes, an engine call that has started returns a payload or   *)
(* raises an error; and no attempt it starts has an index above retries.   *)
(***************************************************************************)
C26_Termination ==
    /\ [](Ready =>
            \A c \in CallIds :
               \A i \in 1..Len(fetches[c]) : fetches[c][i] <= client.retries)
    /\ \A c \in CallIds :
          (Ready /\ pc[c] \in {"fetch", "sleep"}) ~> Terminated(c)

\* The call has ended after all its attempts and the sleeps between them.
C26_Witness ==
    /\ Ready
    /\ client.retries = MaxRetries
    /\ Terminated(1)
    /\ Len(fetches[1]) = client.retries + 1
    /\ Len(sleeps[1]) = client.retries



(***************************************************************************)
(* C27: on a client with retries >= 0 the statement after the loop is      *)
(* never reached.  The loop variable never passes retries, and a call that *)
(* raised did so in its latest attempt, from inside the loop; this         *)
(* includes the attempt answered 429 with a Retry-After when no retry is   *)
(* left.                                                                   *)
(***************************************************************************)
FellOut(c) == pc[c] = "raised" /\ attempt[c] > client.retries

C27_LoopNeverFallsThrough ==
    Ready =>
       \A c \in CallIds :
          /\ ~FellOut(c)
          /\ attempt[c] <= client.retries
          /\ pc[c] = "raised" =>
                /\ Len(outcomes[c]) = attempt[c] + 1
                /\ Len(sleeps[c]) = attempt[c]
                /\ thrown[c].message # Msg("Unknown error occurred")

\* The last attempt was answered 429 with Retry-After: 60 and the call
\* raised the RateLimitError without waiting.
C27_Witness ==
    /\ Ready
    /\ client.retries = 1
    /\ pc[1] = "raised"
    /\ attempt[1] = client.retries
    /\ Len(outcomes[1]) = 2
    /\ HasRetryAfter(Last(outcomes[1]), 60)
    /\ Len(sleeps[1]) = 1
    /\ thrown[1].name = "RateLimitError"
    /\ thrown[1].retryAfter = Num(60)



(***************************************************************************)
(* C28: a 429 with no usable Retry-After (no header, a header that is not  *)
(* an integer, or 0) that answers an attempt before the last is followed   *)
(* by the backoff delay of that attempt and a new attempt; the             *)
(* RateLimitError is raised only for the 429 that answers the last attempt *)
(* allowed.                                                                *)
(***************************************************************************)
IsPlainRateLimit(o) ==
    o.kind = "response" /\ o.status = 429 /\ ~IsServerDirected(o)

C28_PlainRateLimitBacksOff ==
    Ready =>
       \A c \in CallIds :
          /\ \A i \in 1..Len(outcomes[c]) :
                IsPlainRateLimit(outcomes[c][i]) =>
                   /\ i <= client.retries =>
                         /\ Len(sleeps[c]) >= i
                         /\ sleeps[c][i] = ExpectedBackoff(i)
                         /\ pc[c] = "sleep" \/ Len(fetches[c]) > i
                   /\ i = client.retries + 1 =>
                         /\ pc[c] = "raised"
                         /\ thrown[c].name = "RateLimitError"
          /\ (pc[c] = "raised" /\ thrown[c].name = "RateLimitError") =>
                Len(outcomes[c]) = client.retries + 1

\* Three 429s: with no header, with Retry-After: 0, with a header that is
\* no number.  The first two were followed by the backoff, the third
\* ended the call.
C28_Witness ==
    /\ client.retries = 2
    /\ Len(outcomes[1]) = 3
    /\ outcomes[1][1].status = 429 /\ outcomes[1][1].retryAfter = NoHeader
    /\ HasRetryAfter(outcomes[1][2], 0)
    /\ IsPlainRateLimit(outcomes[1][3])
    /\ outcomes[1][3].retryAfter = Header(<<"s", "o", "o", "n">>)
    /\ sleeps[1] = <<ExpectedBackoff(1), ExpectedBackoff(2)>>
    /\ pc[1] = "raised"
    /\ thrown[1].name = "RateLimitError"



(***************************************************************************)
(* C29: the error a call raises is the error of the last attempt it made,  *)
(* not of an earlier one: the typed error of the status of the last        *)
(* response, TimeoutError when the last attempt timed out, the wrapped     *)
(* error of the last failure otherwise.  With retries = 1, a 500 followed  *)
(* by a 503 raises ServerError with statusCode 503, and a 500 followed by  *)
(* a timeout raises TimeoutError.                                          *)
(***************************************************************************)
InnerMessages(kind) ==
    CASE kind = "network" ->
            {FetchFailed.message.fmt, ConnectionReset.message.fmt}
      [] kind = "badjson" ->
            {JsonSyntaxError.message.fmt, NullBodyError.message.fmt}
      [] kind = "bodyfail" -> {BodyTerminated.message.fmt}

C29_LastErrorRaised ==
    Ready =>
       \A c \in CallIds :
          pc[c] = "raised" =>
             LET o == Last(outcomes[c]) IN
             /\ o.kind = "response" => IsClassified(thrown[c], o.status)
             /\ o.kind = "timeout" =>
                   /\ thrown[c].name = "TimeoutError"
                   /\ thrown[c].code = "TIMEOUT_ERROR"
             /\ o.kind \in {"network", "badjson", "bodyfail"} =>
                   /\ thrown[c].code = "NETWORK_ERROR"
                   /\ thrown[c].message.inner \in InnerMessages(o.kind)
             /\ o.kind \in {"response", "timeout"} => thrown[c] = lastError[c]

\* A 500 followed by a 503 on a client with retries = 1.
C29_Witness ==
    /\ client.retries = 1
    /\ Len(outcomes[1]) = 2
    /\ outcomes[1][1].status = 500
    /\ outcomes[1][2].status = 503
    /\ pc[1] = "raised"
    /\ thrown[1].name = "ServerError"
    /\ thrown[1].statusCode = Num(503)



(***************************************************************************)
(* C30: a failure in an attempt that is no error of the SDK (a rejected    *)
(* fetch, a 2xx body that cannot be read or parsed) is retried: before the *)
(* last attempt it is followed by the backoff delay and a new network      *)
(* call; at the last attempt the call raises OilPriceAPIError with code    *)
(* NETWORK_ERROR and a message that reports retries + 1 attempts.  A 2xx   *)
(* response with such a body is never returned as a success.               *)
(***************************************************************************)
IsUntypedFailure(o) == o.kind \in {"network", "badjson", "bodyfail"}

C30_UntypedFailuresRetried ==
    Ready =>
       \A c \in CallIds :
          \A i \in 1..Len(outcomes[c]) :
             IsUntypedFailure(outcomes[c][i]) =>
                /\ i <= client.retries =>
                      /\ Len(sleeps[c]) >= i
                      /\ sleeps[c][i] = ExpectedBackoff(i)
                      /\ pc[c] = "sleep" \/ Len(fetches[c]) > i
                /\ i = client.retries + 1 =>
                      /\ pc[c] = "raised"
                      /\ thrown[c].name = "OilPriceAPIError"
                      /\ thrown[c].typed
                      /\ thrown[c].code = "NETWORK_ERROR"
                      /\ thrown[c].statusCode = Undefined
                      /\ thrown[c].message.fmt =
                            "Request failed after %d attempts: %s"
                      /\ thrown[c].message.arg = client.retries + 1
                      /\ thrown[c].message.inner
                            \in InnerMessages(outcomes[c][i].kind)
                /\ pc[c] = "returned" => i < Len(outcomes[c])

\* Two 2xx responses whose body does not parse, on a client with one
\* retry: a backoff between them, then NETWORK_ERROR after 2 attempts.
C30_Witness ==
    /\ client.retries = 1
    /\ Len(outcomes[1]) = 2
    /\ outcomes[1][1].kind = "badjson"
    /\ outcomes[1][2].kind = "badjson"
    /\ sleeps[1] = <<ExpectedBackoff(1)>>
    /\ fetches[1] = <<0, 1>>
    /\ pc[1] = "raised"
    /\ thrown[1].code = "NETWORK_ERROR"
    /\ thrown[1].message.arg = 2

====
